---- MODULE Spec2Model ----
(***************************************************************************)
(* StoryVisualizer: the scene-generation controller (App.tsx), the         *)
(* per-scene generation call (geminiService.ts generateImageForScene) and  *)
(* the document assembler (ArticlePreview).                                *)
(*                                                                         *)
(*   Spec     the controller of src/App.tsx (credential-swap variant):     *)
(*            batch runs, single-scene regenerations, the key dialogs.     *)
(*   SpecGen  one call of generateImageForScene with its self-invocations. *)
(*   SpecAsm  one assembly pass of ArticlePreview over a text and scenes.  *)
(*   SpecCool the controller of the cooldown revision of App.              *)
(*   SpecSan  one call of smartSanitizePrompt (geminiService.ts).          *)
(*   SpecCmp  one call of compressImage (geminiService.ts).                *)
(***************************************************************************)
EXTENDS Integers, Sequences, FiniteSets, TLC

VARIABLES
  \* ---- controller state (React state of App) ----
  stage,              \* processing.stage
  totalScenes,        \* processing.totalScenes
  completedScenes,    \* processing.completedScenes
  scenes,             \* the published scene list
  hasText,            \* markdownText.trim() is not empty
  currentApiKey,      \* 0 is the empty string
  newKeyInput,        \* 0 is the empty string
  showRateLimitModal,
  showApiKeyModal,
  retryStartIndex,
  ops,                \* the invocations of startProcessing / handleRegenerateScene
  reqLog,             \* history: the requests sent to the external capabilities
  cooldownTime,       \* the countdown of the cooldown revisions of App
  \* ---- one generateImageForScene call (SpecGen) ----
  gStack,             \* the chain of self-invocations, innermost last
  gSubmitted,         \* history: the prompts submitted to the image capability
  gAnswers,           \* history: what the image capability answered
  gResult,            \* "running", "image", or the error that reached the caller
  gInput,             \* the arguments of the outermost call
  \* ---- one assembly pass (SpecAsm) ----
  fullText,
  aScenes,
  wrapInP,            \* the renderer wraps a lone comment in a paragraph
  result,             \* RenderedResult, or NoResult
  \* ---- one smartSanitizePrompt call (SpecSan) ----
  sanPrompt,          \* the argument prompt
  safe,               \* the returned string
  sanitized,          \* the call has returned
  \* ---- one compressImage call (SpecCmp) ----
  maxSizeBytes,       \* the argument
  cmpPc,              \* "idle", "loading", "encode" or "resolved"
  quality,            \* the local of the onload handler
  dataUrl,            \* length of the latest data URL, 0 before the first
  encodes,            \* history: the toDataURL calls that returned
  cmpFailure,         \* history: what failed, or "none"
  resolved,           \* what the promise resolved with
  \* ---- one analysis of a fresh run (SpecAna) ----
  anaResponse,        \* what the text capability answers
  anaAccepted,        \* history: the list passed to setScenes, <<>> before
  \* ---- one findBeforeSectionOneIndex call (SpecBnd) ----
  sectionText,        \* the argument
  boundaryOffset,    \* the returned offset
  boundaryFound       \* the call has returned

ctlVars == <<stage, totalScenes, completedScenes, scenes, hasText, currentApiKey,
             newKeyInput, showRateLimitModal, showApiKeyModal, retryStartIndex,
             ops, reqLog>>
genVars == <<gStack, gSubmitted, gAnswers, gResult, gInput>>
asmVars == <<fullText, aScenes, wrapInP, result>>
coolVars == <<cooldownTime>>
sanVars == <<sanPrompt, safe, sanitized>>
cmpVars == <<maxSizeBytes, cmpPc, quality, dataUrl, encodes, cmpFailure, resolved>>
anaVars == <<anaResponse, anaAccepted>>
bndVars == <<sectionText, boundaryOffset, boundaryFound>>
vars == <<ctlVars, genVars, asmVars, coolVars, sanVars, cmpVars, anaVars, bndVars>>

\* ------------------------------------------------------------------ bounds
\* scenes an analysis returns at most
NumScenes == 2
\* invocations of startProcessing / handleRegenerateScene in one behaviour
MaxOps == 4
\* distinct credentials the user can type
MaxKeys == 2
\* rate-limited generation requests in one behaviour of the cooldown revision
MaxQuotaFailures == 2
\* the textarea and the API-key button of the editor view are used only while
\* at most this many invocations were made
MaxOpsWhenEditing == 0

Keys == 1..MaxKeys

Max(a, b) == IF a > b THEN a ELSE b
Min(a, b) == IF a < b THEN a ELSE b

\* =====================================================================
\* The controller: src/App.tsx
\* =====================================================================

\* everCompleted is history: the scene has had status completed
NewScene(n) == [id |-> n, status |-> "pending", imageUrl |-> 0, everCompleted |-> FALSE]
NoScene == [id |-> 0, status |-> "pending", imageUrl |-> 0, everCompleted |-> FALSE]

\* the ids of the scenes of a response, in the order of the response: the
\* response is used as it is parsed, its ids neither sorted nor renumbered
SceneIdLists(n) == {ids \in [1..n -> 1..n] : \A j, k \in 1..n : ids[j] = ids[k] => j = k}

\* the scene list analyzeStoryText resolves with: every scene pending
AnalysisScenes(ids) == [k \in 1..Len(ids) |-> NewScene(ids[k])]

IdleOps == <<>>

CtlInit ==
  /\ stage = "idle"
  /\ totalScenes = 0
  /\ completedScenes = 0
  /\ scenes = <<>>
  /\ hasText \in BOOLEAN
  /\ currentApiKey \in {0, 1}
  /\ newKeyInput = 0
  /\ showRateLimitModal = FALSE
  /\ showApiKeyModal = FALSE
  /\ retryStartIndex = 0
  /\ ops = IdleOps
  /\ reqLog = {}

GenIdle ==
  /\ gStack = <<>>
  /\ gSubmitted = <<>>
  /\ gAnswers = <<>>
  /\ gResult = "idle"
  /\ gInput = [isRetry |-> FALSE, hasAbstract |-> FALSE, provider |-> "official"]

NoResult == [markdownWithImages |-> <<>>, htmlContent |-> <<>>, cleanHtmlContent |-> <<>>,
             placed |-> <<>>, ready |-> FALSE]

AsmIdle ==
  /\ fullText = <<>>
  /\ aScenes = <<>>
  /\ wrapInP = FALSE
  /\ result = NoResult

NoResponse == [text |-> FALSE, scenes |-> <<>>]

AnaIdle ==
  /\ anaResponse = NoResponse
  /\ anaAccepted = <<>>

BndIdle ==
  /\ sectionText = <<>>
  /\ boundaryOffset = 0
  /\ boundaryFound = FALSE

SanIdle ==
  /\ sanPrompt = <<>>
  /\ safe = <<>>
  /\ sanitized = FALSE

\* a binary64 value as a count of units of 2^-56, in two limbs of 28 bits
NoQuality == [hi |-> 0, lo |-> 0]

CmpIdle ==
  /\ maxSizeBytes = 0
  /\ cmpPc = "idle"
  /\ quality = NoQuality
  /\ dataUrl = 0
  /\ encodes = <<>>
  /\ cmpFailure = "none"
  /\ resolved = [with |-> "pending", len |-> 0]

\* the three views App renders
IdleView == stage = "idle"
CompleteView == stage = "complete"
LoadingView == stage \notin {"idle", "complete"}

\* the quota test of the callers: e.code === 429 || message includes QUOTA / 429
Outcomes == {"ok", "quota", "fail"}

NewOp(kind, resume, key, viaResume, supplied, pausedK) ==
  [kind |-> kind, pc |-> "new", resume |-> resume, i |-> resume, key |-> key,
   local |-> <<>>, scene |-> NoScene, viaResume |-> viaResume, supplied |-> supplied,
   pausedK |-> pausedK, overlap |-> {}, outcome |-> "none", outStatus |-> "none",
   outImage |-> 0, remaining |-> 0, quotas |-> 0]

\* the invocation has returned: its locals are gone
Returned(o) == [o EXCEPT !.pc = "done", !.local = <<>>, !.scene = NoScene]

InFlight(o) == o.pc \in {"analyze", "delay", "gen", "cooldown"}

\* a loop that skips no scene
SkipNothing(local, i) == i

\* first index at or after i that the loop does not skip
RECURSIVE SkipCompleted(_, _)
SkipCompleted(local, i) ==
  IF i >= Len(local) THEN i
  ELSE IF local[i + 1].status = "completed" THEN SkipCompleted(local, i + 1)
  ELSE i

Request(n, kind, idx, key) == [op |-> n, kind |-> kind, idx |-> idx, key |-> key]

\* The generation loop from index i0 up to its next suspension point, for the
\* invocation n (record o) whose local array is `local`; `pub` is the scene list
\* published so far, stg/tot the processing fields set so far.
GenerationLoop(n, o, i0, local, pub, stg, tot, allOps) ==
  IF i0 < 0
  THEN \* updatedScenes[-1] is undefined: scene.status throws, caught at the end
       /\ stage' = "error"
       /\ totalScenes' = tot
       /\ completedScenes' = completedScenes
       /\ scenes' = pub
       /\ ops' = [allOps EXCEPT ![n] = Returned(o)]
       /\ reqLog' = reqLog
  ELSE LET i == SkipCompleted(local, i0) IN
       IF i >= Len(local)
       THEN /\ stage' = "complete"
            /\ totalScenes' = Len(local)
            /\ completedScenes' = Len(local)
            /\ scenes' = pub
            /\ ops' = [allOps EXCEPT ![n] = Returned([o EXCEPT !.i = i])]
            /\ reqLog' = reqLog
       ELSE LET sc == local[i + 1]
                l2 == [local EXCEPT ![i + 1] = [sc EXCEPT !.status = "generating"]]
            IN /\ stage' = stg
               /\ totalScenes' = tot
               /\ completedScenes' = i
               /\ scenes' = l2
               /\ IF i > o.resume
                  THEN /\ ops' = [allOps EXCEPT ![n] =
                                   [o EXCEPT !.pc = "delay", !.i = i, !.local = l2, !.scene = sc]]
                       /\ reqLog' = reqLog
                  ELSE /\ ops' = [allOps EXCEPT ![n] =
                                   [o EXCEPT !.pc = "gen", !.i = i, !.local = l2, !.scene = sc]]
                       /\ reqLog' = reqLog \cup {Request(n, "generate", i, o.key)}

\* startProcessing(resumeFromIndex) up to its first suspension point.  The
\* closure reads currentApiKey and scenes of the render the handler belongs to.
startProcessing(resume, viaResume, supplied, pausedK) ==
  IF ~hasText
  THEN UNCHANGED <<stage, totalScenes, completedScenes, scenes, showApiKeyModal, ops, reqLog>>
  ELSE IF currentApiKey = 0
  THEN /\ showApiKeyModal' = TRUE
       /\ UNCHANGED <<stage, totalScenes, completedScenes, scenes, ops, reqLog>>
  ELSE LET n == Len(ops) + 1
           o == NewOp("batch", resume, currentApiKey, viaResume, supplied, pausedK)
       IN /\ showApiKeyModal' = showApiKeyModal
          /\ IF resume = 0
             THEN /\ stage' = "analyzing"
                  /\ totalScenes' = 0
                  /\ completedScenes' = 0
                  /\ scenes' = <<>>
                  /\ ops' = Append(ops, [o EXCEPT !.pc = "analyze"])
                  /\ reqLog' = reqLog \cup {Request(n, "analyze", 0, currentApiKey)}
             ELSE GenerationLoop(n, o, resume, scenes, scenes, "generating", totalScenes,
                                 Append(ops, o))

\* the start button of the editor view
ClickStart ==
  /\ IdleView /\ ~showApiKeyModal /\ hasText
  /\ Len(ops) < MaxOps
  /\ startProcessing(0, FALSE, 0, -1)
  /\ UNCHANGED <<hasText, currentApiKey, newKeyInput, showRateLimitModal, retryStartIndex>>

\* the textarea of the editor view
EditText ==
  /\ IdleView /\ ~showApiKeyModal
  /\ Len(ops) <= MaxOpsWhenEditing
  /\ hasText' = ~hasText
  /\ UNCHANGED <<stage, totalScenes, completedScenes, scenes, currentApiKey, newKeyInput,
                 showRateLimitModal, showApiKeyModal, retryStartIndex, ops, reqLog>>

OpenApiKeyModal ==
  /\ IdleView /\ ~showApiKeyModal
  /\ Len(ops) <= MaxOpsWhenEditing
  /\ showApiKeyModal' = TRUE
  /\ UNCHANGED <<stage, totalScenes, completedScenes, scenes, hasText, currentApiKey,
                 newKeyInput, showRateLimitModal, retryStartIndex, ops, reqLog>>

CloseApiKeyModal ==
  /\ IdleView /\ showApiKeyModal
  /\ showApiKeyModal' = FALSE
  /\ UNCHANGED <<stage, totalScenes, completedScenes, scenes, hasText, currentApiKey,
                 newKeyInput, showRateLimitModal, retryStartIndex, ops, reqLog>>

\* a key input is on screen: the API-key dialog or one of the rate-limit dialogs
KeyInputVisible ==
  \/ IdleView /\ showApiKeyModal
  \/ ~IdleView /\ showRateLimitModal

TypeKey ==
  /\ KeyInputVisible
  /\ \E k \in Keys \cup {0} : k # newKeyInput /\ newKeyInput' = k
  /\ UNCHANGED <<stage, totalScenes, completedScenes, scenes, hasText, currentApiKey,
                 showRateLimitModal, showApiKeyModal, retryStartIndex, ops, reqLog>>

handleSaveInitialKey ==
  /\ IdleView /\ showApiKeyModal
  /\ newKeyInput # 0
  /\ currentApiKey' = newKeyInput
  /\ showApiKeyModal' = FALSE
  /\ newKeyInput' = 0
  /\ UNCHANGED <<stage, totalScenes, completedScenes, scenes, hasText,
                 showRateLimitModal, retryStartIndex, ops, reqLog>>

\* an analysis whose every failure ends the run in stage error
AnalysisFailureIsError(n, o, out) ==
  /\ ops' = [ops EXCEPT ![n] = Returned([o EXCEPT !.outcome = out])]
  /\ stage' = "error"
  /\ UNCHANGED <<totalScenes, completedScenes, scenes, reqLog, showRateLimitModal,
                 retryStartIndex>>

\* analyzeStoryText rejected: the inner catch pauses on a rate limit and
\* rethrows anything else to the outer catch
AnalysisFailed(n, o, out) ==
  /\ ops' = [ops EXCEPT ![n] = Returned([o EXCEPT !.outcome = out])]
  /\ IF out = "quota"
     THEN /\ retryStartIndex' = 0
          /\ showRateLimitModal' = TRUE
          /\ UNCHANGED stage
     ELSE /\ stage' = "error"
          /\ UNCHANGED <<showRateLimitModal, retryStartIndex>>
  /\ UNCHANGED <<totalScenes, completedScenes, scenes, reqLog>>

\* analyzeStoryText settles
AnalyzeReturnFrom(idLists) ==
  \E n \in {m \in 1..Len(ops) : ops[m].pc = "analyze"} :
  \E out \in Outcomes :
  \E ids \in IF out = "ok" THEN idLists ELSE {<<1>>} :
    LET o == ops[n] IN
    /\ UNCHANGED <<hasText, currentApiKey, newKeyInput, showApiKeyModal>>
    /\ IF out = "ok"
       THEN /\ GenerationLoop(n, [o EXCEPT !.outcome = out], 0, AnalysisScenes(ids),
                              AnalysisScenes(ids), "generating", Len(ids), ops)
            /\ UNCHANGED <<showRateLimitModal, retryStartIndex>>
       ELSE AnalysisFailed(n, o, out)

\* the id lists of the responses: up to NumScenes scenes in any order
ResponseIdLists == UNION {SceneIdLists(cnt) : cnt \in 1..NumScenes}

AnalyzeReturn == AnalyzeReturnFrom(ResponseIdLists)

\* the 10 s pause before a request that is not the first of its run
DelayDone ==
  \E n \in 1..Len(ops) :
    LET o == ops[n] IN
    /\ o.pc = "delay"
    /\ ops' = [ops EXCEPT ![n].pc = "gen"]
    /\ reqLog' = reqLog \cup {Request(n, "generate", o.i, o.key)}
    /\ UNCHANGED <<stage, totalScenes, completedScenes, scenes, hasText, currentApiKey,
                   newKeyInput, showRateLimitModal, showApiKeyModal, retryStartIndex>>

\* a loop that pauses the scene on every failure
PendingOnFailure(out) == IF out = "ok" THEN "completed" ELSE "pending"

\* a loop that records an error whenever its request is not rate limited
NeverCompleted(out) == IF out = "quota" THEN "pending" ELSE "error"

\* the status the batch loop gives the scene whose request settled with out
BatchStatus(out) ==
  CASE out = "ok" -> "completed" [] out = "quota" -> "pending" [] OTHER -> "error"

\* generateImageForScene settles inside the batch loop
GenReturn ==
  \E n \in 1..Len(ops) : \E out \in Outcomes :
    LET o == ops[n]
        st == BatchStatus(out)
        img == IF out = "ok" THEN n ELSE o.scene.imageUrl
        l2 == [o.local EXCEPT ![o.i + 1] = [o.scene EXCEPT !.status = st, !.imageUrl = img,
                                                        !.everCompleted = @ \/ st = "completed"]]
        o2 == [o EXCEPT !.outcome = out, !.outStatus = st, !.outImage = img]
    IN
    /\ o.kind = "batch" /\ o.pc = "gen"
    /\ UNCHANGED <<hasText, currentApiKey, newKeyInput, showApiKeyModal>>
    /\ IF out = "quota"
       THEN /\ scenes' = l2
            /\ retryStartIndex' = o.i
            /\ showRateLimitModal' = TRUE
            /\ ops' = [ops EXCEPT ![n] = Returned(o2)]
            /\ UNCHANGED <<stage, totalScenes, completedScenes, reqLog>>
       ELSE /\ GenerationLoop(n, o2, o.i + 1, l2, l2, stage, totalScenes, ops)
            /\ UNCHANGED <<showRateLimitModal, retryStartIndex>>

\* index of the batch generation request whose rate limit opened the dialog
\* (history read off the invocations): -1 if there is none
LastBatchPause ==
  LET paused == {n \in 1..Len(ops) : ops[n].kind = "batch" /\ ops[n].pc = "done"
                                     /\ ops[n].outStatus = "pending"}
  IN IF paused = {} THEN -1
     ELSE LET last == CHOOSE n \in paused : \A m \in paused : m <= n
          IN IF last = Len(ops) THEN ops[last].i ELSE -1

\* "replace and continue" of the loading view's rate-limit dialog
handleResumeWithNewKey ==
  /\ LoadingView /\ showRateLimitModal
  /\ newKeyInput # 0
  /\ Len(ops) < MaxOps
  /\ currentApiKey' = newKeyInput
  /\ showRateLimitModal' = FALSE
  /\ newKeyInput' = 0
  /\ startProcessing(retryStartIndex, TRUE, newKeyInput, LastBatchPause)
  /\ UNCHANGED <<hasText, retryStartIndex>>

\* "cancel" of the loading view's rate-limit dialog
CancelRateLimit ==
  /\ LoadingView /\ showRateLimitModal
  /\ showRateLimitModal' = FALSE
  /\ stage' = "error"
  /\ UNCHANGED <<totalScenes, completedScenes, scenes, hasText, currentApiKey, newKeyInput,
                 showApiKeyModal, retryStartIndex, ops, reqLog>>

\* "back to editing" of the result view
BackToEdit ==
  /\ CompleteView /\ ~showRateLimitModal
  /\ stage' = "idle"
  /\ UNCHANGED <<totalScenes, completedScenes, scenes, hasText, currentApiKey, newKeyInput,
                 showRateLimitModal, showApiKeyModal, retryStartIndex, ops, reqLog>>

\* the result view's rate-limit dialog: Cancel
DismissRateLimit ==
  /\ CompleteView /\ showRateLimitModal
  /\ showRateLimitModal' = FALSE
  /\ UNCHANGED <<stage, totalScenes, completedScenes, scenes, hasText, currentApiKey,
                 newKeyInput, showApiKeyModal, retryStartIndex, ops, reqLog>>

\* the result view's rate-limit dialog: Update Key
UpdateKey ==
  /\ CompleteView /\ showRateLimitModal
  /\ currentApiKey' = newKeyInput
  /\ showRateLimitModal' = FALSE
  /\ UNCHANGED <<stage, totalScenes, completedScenes, scenes, hasText, newKeyInput,
                 showApiKeyModal, retryStartIndex, ops, reqLog>>

\* a regenerate / retry control of the preview: handleRegenerateScene(sceneId)
\* up to its request
handleRegenerateScene ==
  \E idx \in 0..(Len(scenes) - 1) :
    LET scene == scenes[idx + 1]
        n == Len(ops) + 1
        newScenes == [scenes EXCEPT ![idx + 1] = [scene EXCEPT !.status = "generating"]]
        o == [NewOp("regen", idx, currentApiKey, FALSE, 0, -1) EXCEPT
                !.pc = "gen", !.local = newScenes, !.scene = scene,
                !.overlap = {m \in 1..Len(ops) : ops[m].kind = "regen" /\ InFlight(ops[m])}]
    IN
    /\ CompleteView /\ ~showRateLimitModal
    /\ scene.status \in {"completed", "error"}
    /\ Len(ops) < MaxOps
    /\ currentApiKey # 0
    /\ scenes' = newScenes
    /\ ops' = Append(ops, o)
    /\ reqLog' = reqLog \cup {Request(n, "generate", idx, currentApiKey)}
    /\ UNCHANGED <<stage, totalScenes, completedScenes, hasText, currentApiKey, newKeyInput,
                   showRateLimitModal, showApiKeyModal, retryStartIndex>>

\* a regenerate that leaves the scene generating when it is rate limited
GeneratingOnQuota(out) ==
  CASE out = "ok" -> "completed" [] out = "quota" -> "generating" [] OTHER -> "error"

\* the status handleRegenerateScene gives the scene whose request settled with out
RegenStatus(out) == IF out = "ok" THEN "completed" ELSE "error"

\* generateImageForScene settles inside handleRegenerateScene
RegenReturn ==
  \E n \in 1..Len(ops) : \E out \in Outcomes :
    LET o == ops[n]
        st == RegenStatus(out)
        img == IF out = "ok" THEN n ELSE o.scene.imageUrl
        l2 == [o.local EXCEPT ![o.i + 1] = [o.scene EXCEPT !.status = st, !.imageUrl = img,
                                                        !.everCompleted = @ \/ st = "completed"]]
    IN
    /\ o.kind = "regen" /\ o.pc = "gen"
    /\ scenes' = l2
    /\ ops' = [ops EXCEPT ![n] = Returned([o EXCEPT !.outcome = out, !.outStatus = st,
                                                     !.outImage = img])]
    /\ IF out = "quota"
       THEN /\ retryStartIndex' = -1
            /\ showRateLimitModal' = TRUE
       ELSE UNCHANGED <<retryStartIndex, showRateLimitModal>>
    /\ UNCHANGED <<stage, totalScenes, completedScenes, hasText, currentApiKey, newKeyInput,
                   showApiKeyModal, reqLog>>

\* the revision of src/App.tsx has no countdown
CoolIdle == cooldownTime = 0

CtlFrame == UNCHANGED <<genVars, asmVars, coolVars, sanVars, cmpVars, anaVars, bndVars>>

Init == CtlInit /\ GenIdle /\ AsmIdle /\ CoolIdle /\ SanIdle /\ CmpIdle /\ AnaIdle /\ BndIdle

Next ==
  \/ ClickStart /\ CtlFrame
  \/ EditText /\ CtlFrame
  \/ OpenApiKeyModal /\ CtlFrame
  \/ CloseApiKeyModal /\ CtlFrame
  \/ TypeKey /\ CtlFrame
  \/ handleSaveInitialKey /\ CtlFrame
  \/ AnalyzeReturn /\ CtlFrame
  \/ DelayDone /\ CtlFrame
  \/ GenReturn /\ CtlFrame
  \/ handleResumeWithNewKey /\ CtlFrame
  \/ CancelRateLimit /\ CtlFrame
  \/ BackToEdit /\ CtlFrame
  \/ DismissRateLimit /\ CtlFrame
  \/ UpdateKey /\ CtlFrame
  \/ handleRegenerateScene /\ CtlFrame
  \/ RegenReturn /\ CtlFrame

Spec == Init /\ [][Next]_vars

\* ---- the same controller on texts analysed into up to three scenes ----
\* The stories of this specification are those of Spec in which every
\* analysis answers with the scenes 1, 2 or 1, 2, 3 in this order, the key is
\* not changed outside the rate-limit dialog and that dialog is left by
\* resuming.
ThreeScenes == {<<1, 2>>, <<1, 2, 3>>}

AnalyzeReturnThree == AnalyzeReturnFrom(ThreeScenes)

NextThree ==
  \/ ClickStart /\ CtlFrame
  \/ TypeKey /\ CtlFrame
  \/ AnalyzeReturnThree /\ CtlFrame
  \/ DelayDone /\ CtlFrame
  \/ GenReturn /\ CtlFrame
  \/ handleResumeWithNewKey /\ CtlFrame
  \/ BackToEdit /\ CtlFrame
  \/ handleRegenerateScene /\ CtlFrame
  \/ RegenReturn /\ CtlFrame

SpecThree == Init /\ [][NextThree]_vars

\* ---------------------------------------------------------------------
\* Claims about the controller
\* ---------------------------------------------------------------------

ResumedAfterPause(n) == ops[n].viaResume /\ ops[n].pausedK >= 0

\* C1: batch resume.  When the generation request for the scene at index k
\* failed with a rate limit and the user resumed with a new credential, the
\* resumed run requests the scene at index k, requests no scene before k and
\* does not invoke analysis again, for every k in 0..n-1.
C1_BatchResumeContinuesAtK ==
  \A n \in 1..Len(ops) :
    ResumedAfterPause(n) =>
      /\ \E r \in reqLog : r.op = n /\ r.kind = "generate" /\ r.idx = ops[n].pausedK
      /\ \A r \in reqLog : r.op = n => r.kind = "generate" /\ r.idx >= ops[n].pausedK

\* C2: every request of a run resumed through the rate-limit dialog carries
\* the credential supplied in that dialog.
C2_ResumedRunUsesNewKey ==
  \A r \in reqLog : ops[r.op].viaResume => r.key = ops[r.op].supplied

AllSettled == \A n \in 1..Len(ops) : ~InFlight(ops[n])

\* C4: no stale overwrite.  Once every operation has finished, no scene is
\* left generating, and when the last operation is a regenerate of scene A
\* started while a regenerate of another scene B was awaiting its request,
\* A and B both hold the outcome of their own generation.
C4_NoStaleOverwrite ==
  AllSettled =>
    /\ \A k \in 1..Len(scenes) : scenes[k].status # "generating"
    /\ \A a \in 1..Len(ops) : \A b \in ops[a].overlap :
         (a = Len(ops) /\ ops[a].kind = "regen" /\ ops[a].i # ops[b].i) =>
           \A x \in {a, b} :
             /\ scenes[ops[x].i + 1].status = ops[x].outStatus
             /\ scenes[ops[x].i + 1].imageUrl = ops[x].outImage

\* this step, the generation request of batch invocation n settles with out
BatchRequestSettles(n, out) ==
  /\ ops[n].kind = "batch"
  /\ ops[n].pc = "gen"
  /\ ops'[n].pc # "gen"
  /\ ops'[n].outcome = out

\* C14: a failure of one scene's request that is not a rate limit is
\* contained.  In the step in which the request of the scene at index i fails,
\* that scene is published with status error, no dialog opens, stage stays as
\* it is or becomes complete, and the loop goes on to the next index it does
\* not skip: it waits to request a later scene, or every later scene was
\* completed already and the run ends complete.
ContainedFailure(n) ==
  LET i == ops[n].i
      later == {j \in (i + 1)..(ops'[n].i - 1) : j < Len(ops[n].local)}
  IN /\ scenes'[i + 1].status = "error"
     /\ showRateLimitModal' = showRateLimitModal
     /\ retryStartIndex' = retryStartIndex
     /\ stage' \in {stage, "complete"}
     /\ ops'[n].i > i
     /\ \A j \in later : ops[n].local[j + 1].status = "completed"
     /\ \/ ops'[n].pc = "delay" /\ ops'[n].i < Len(ops[n].local)
        \/ ops'[n].pc = "done" /\ ops'[n].i = Len(ops[n].local) /\ stage' = "complete"

C14_FailureContained ==
  [][\A n \in 1..Len(ops) : BatchRequestSettles(n, "fail") => ContainedFailure(n)]_vars

\* a batch waits to request the second scene after the first one failed
C14_Witness ==
  \E n \in 1..Len(ops) :
    /\ ops[n].kind = "batch" /\ ops[n].pc = "delay" /\ ops[n].i = 1
    /\ ops[n].outcome = "fail"
    /\ scenes[1].status = "error"
    /\ stage = "generating"

\* the requests invocation n has issued
RequestsOf(n) == {r \in reqLog : r.op = n}
AnalysisRequestsOf(n) == {r \in RequestsOf(n) : r.kind = "analyze"}

\* this step, the analysis request of invocation n settles with out
AnalysisSettles(n, out) ==
  /\ ops[n].pc = "analyze"
  /\ ops'[n].pc # "analyze"
  /\ ops'[n].outcome = out

\* C17: a run started with resume index 0 invokes analysis exactly once (and a
\* run started with another index never).  When the analysis is rate limited
\* the run returns with the resume index 0 stored and the dialog open, and
\* stage is not moved; when it fails in any other way (zero scenes included)
\* stage becomes error.  In both cases the run has issued no generation
\* request and issues none afterwards.
C17_FreshRunAnalysis ==
  [][/\ \A n \in 1..Len(ops') :
          ops'[n].kind = "batch" =>
            Cardinality(AnalysisRequestsOf(n)') = IF ops'[n].resume = 0 THEN 1 ELSE 0
     /\ \A n \in 1..Len(ops) :
          /\ AnalysisSettles(n, "quota") =>
                /\ retryStartIndex' = 0
                /\ showRateLimitModal'
                /\ stage' = stage
          /\ AnalysisSettles(n, "fail") => stage' = "error"
          /\ (AnalysisSettles(n, "quota") \/ AnalysisSettles(n, "fail")) =>
                /\ ops'[n].pc = "done"
                /\ RequestsOf(n)' = AnalysisRequestsOf(n)
          /\ ops[n].pc = "done" => ops'[n].pc = "done" /\ RequestsOf(n)' = RequestsOf(n)
    ]_vars

\* the analysis of the first run was rate limited: the run is paused
C17_Witness ==
  /\ Len(ops) = 1
  /\ ops[1].pc = "done" /\ ops[1].outcome = "quota"
  /\ RequestsOf(1) = AnalysisRequestsOf(1)
  /\ showRateLimitModal /\ retryStartIndex = 0
  /\ stage = "analyzing"

\* this step, the request of the regenerate invocation n settles with out
RegenSettles(n, out) ==
  /\ ops[n].kind = "regen"
  /\ ops[n].pc = "gen"
  /\ ops'[n].pc # "gen"
  /\ ops'[n].outcome = out

\* this step, handleRegenerateScene is invoked
RegenStarts == Len(ops') = Len(ops) + 1 /\ ops'[Len(ops')].kind = "regen"

\* C18: a rate-limited regenerate of one scene neither retries nor resumes.
\* In the step in which its request is rate limited the scene is published
\* with status error, the marker -1 is stored as resume index, the dialog is
\* opened and the invocation returns having issued that one request; it
\* issues none afterwards.  A regenerate invoked later carries the credential
\* current at that time.
C18_RegenerateQuota ==
  [][/\ \A n \in 1..Len(ops) :
          /\ RegenSettles(n, "quota") =>
                /\ scenes'[ops[n].i + 1].status = "error"
                /\ retryStartIndex' = -1
                /\ showRateLimitModal'
                /\ ops'[n].pc = "done"
                /\ RequestsOf(n)' = RequestsOf(n)
                /\ Cardinality(RequestsOf(n)) = 1
          /\ (ops[n].kind = "regen" /\ ops[n].pc = "done") =>
                ops'[n].pc = "done" /\ RequestsOf(n)' = RequestsOf(n)
     /\ RegenStarts =>
          LET n == Len(ops) + 1 IN
          /\ currentApiKey # 0
          /\ {r \in reqLog' : r.op = n}
               = {Request(n, "generate", ops'[n].i, currentApiKey)}
    ]_vars

\* a regenerate of a scene was rate limited, the key was replaced in the
\* dialog, and a later regenerate of the same scene completed it with that key
C18_Witness ==
  \E a \in 1..Len(ops) : \E b \in (a + 1)..Len(ops) :
    /\ ops[a].kind = "regen" /\ ops[a].outcome = "quota"
    /\ ops[b].kind = "regen" /\ ops[b].i = ops[a].i
    /\ ops[b].key # ops[a].key
    /\ ops[b].pc = "done" /\ ops[b].outcome = "ok"
    /\ scenes[ops[b].i + 1].status = "completed"
    /\ scenes[ops[b].i + 1].imageUrl = b
    /\ retryStartIndex = -1

\* the change of status from s to t of the scene at list position k (1-based)
\* that this step publishes is one of the allowed transitions
AllowedTransition(k, s, t) ==
  \/ s = "pending" /\ t = "generating"
  \/ s = "generating" /\ t \in {"completed", "error"}
  \/ /\ s = "generating" /\ t = "pending"
     /\ \E n \in 1..Len(ops) : BatchRequestSettles(n, "quota") /\ ops[n].i = k - 1
  \/ /\ s \in {"completed", "error"} /\ t = "generating"
     /\ RegenStarts /\ ops'[Len(ops) + 1].i = k - 1

\* C13: every change of a scene's status in the published scene list is
\* pending -> generating, generating -> completed, generating -> error,
\* generating -> pending (only when the batch request of that scene is rate
\* limited) or completed / error -> generating (only when a regenerate of that
\* scene starts), in every interleaving of the operations.
C13_StatusTransitions ==
  [][\A k \in 1..Min(Len(scenes), Len(scenes')) :
       scenes[k].status # scenes'[k].status =>
         AllowedTransition(k, scenes[k].status, scenes'[k].status)]_vars

\* this step, startProcessing is invoked
BatchStarts == Len(ops') = Len(ops) + 1 /\ ops'[Len(ops) + 1].kind = "batch"

\* the startProcessing invocations that are between their start and their return
RunningBatches == {n \in 1..Len(ops) : ops[n].kind = "batch" /\ InFlight(ops[n])}

\* C20: concurrent batch runs are never started.  At most one startProcessing
\* invocation is between its start and its return, and startProcessing is
\* never invoked while an earlier invocation has not returned, whatever the
\* user does.
C20_NoConcurrentBatch ==
  [][/\ Cardinality(RunningBatches) <= 1
     /\ BatchStarts => RunningBatches = {}]_vars

\* the generation requests invocation n has issued
GenerationRequestsOf(n) == {r \in RequestsOf(n) : r.kind = "generate"}

\* C19: within one batch run the scenes are generated one at a time in
\* ascending order of scene id.  While the run awaits the request for the
\* scene at index i, that is the one request of the run that can be
\* outstanding (every other request it issued is for an earlier index and has
\* settled), and no scene that is still to be requested has a smaller id;
\* while it is not awaiting a request, none of its requests is outstanding.
C19_OneAtATimeAscendingIds ==
  \A n \in 1..Len(ops) :
    ops[n].kind = "batch" =>
      /\ ops[n].pc = "gen" =>
           /\ \E r \in GenerationRequestsOf(n) : r.idx = ops[n].i
           /\ \A r \in GenerationRequestsOf(n) : r.idx <= ops[n].i
           /\ \A j \in (ops[n].i + 2)..Len(ops[n].local) :
                ops[n].local[j].status # "completed" =>
                  ops[n].local[j].id > ops[n].local[ops[n].i + 1].id
      /\ ops[n].pc = "delay" => \A r \in GenerationRequestsOf(n) : r.idx < ops[n].i

\* the generation requests the invocation n has issued so far
IssuedBy(n) == {r \in reqLog : r.op = n /\ r.kind = "generate"}

\* C25: pacing of the batch loop.  A run starts its 10-second delay only
\* after it has issued a generation request (the first request of a fresh or
\* resumed run is not delayed), and every request of a run after its first
\* is issued out of the delay.
C25_DelayBeforeAllButFirstRequest ==
  [][\A n \in 1..Len(ops') :
       ops'[n].kind = "batch" =>
         LET was == IF n <= Len(ops) THEN ops[n].pc ELSE "new" IN
         /\ (ops'[n].pc = "delay" /\ was # "delay") => IssuedBy(n) # {}
         /\ (ops'[n].pc = "gen" /\ was # "gen" /\ IssuedBy(n) # {}) => was = "delay"]_vars

\* C26: the batch loop issues no generation request for a scene that is
\* completed in the run's list when the loop reaches its index, and such a
\* scene is published with the status and the imageUrl it had.
C26_CompletedScenesSkipped ==
  [][\A n \in 1..Len(ops') :
       ops'[n].kind = "batch" =>
         LET isNew == n > Len(ops)
             src == IF isNew THEN scenes ELSE ops[n].local
             start == IF isNew THEN ops'[n].resume ELSE ops[n].i + 1
         IN /\ \A r \in reqLog' \ reqLog :
                 (r.op = n /\ r.kind = "generate" /\ r.idx < Len(src)) =>
                   src[r.idx + 1].status # "completed"
            /\ \A j \in start..(ops'[n].i - 1) :
                 (j >= 0 /\ j < Len(src) /\ src[j + 1].status = "completed") =>
                   /\ scenes'[j + 1] = src[j + 1]
                   /\ \A r \in reqLog' \ reqLog : ~(r.op = n /\ r.idx = j)]_vars

\* a resumed run went past the completed scene at its resume index without
\* a request
C26_Witness ==
  \E n \in 1..Len(ops) :
    /\ ops[n].kind = "batch" /\ ops[n].resume >= 1
    /\ ops[n].pc = "delay"
    /\ IssuedBy(n) = {}
    /\ scenes[ops[n].resume + 1].status = "completed"

\* the changes of stage the flow allows
StageFlow ==
  {<<"idle", "analyzing">>, <<"analyzing", "generating">>, <<"generating", "complete">>,
   <<"complete", "idle">>}
     \cup {<<s, "error">> : s \in {"idle", "analyzing", "generating", "complete"}}

\* the batch invocation n runs its loop to the end in this step
LoopEnds(n) ==
  /\ n <= Len(ops') /\ ops'[n].kind = "batch" /\ ops'[n].pc = "done"
  /\ (n > Len(ops) \/ ops[n].pc # "done")
  /\ ops'[n].i >= 0 /\ ops'[n].i >= Len(scenes')
  /\ ops'[n].outcome # "quota"
  /\ (n <= Len(ops) => ops[n].pc = "gen")

\* C27: stage changes only along idle -> analyzing -> generating -> complete,
\* to error, or from complete back to idle; and the step in which a batch
\* loop runs to its end sets stage to complete, however many scenes are in
\* status error.
C27_StageFlow ==
  [][/\ stage' # stage => <<stage, stage'>> \in StageFlow
     /\ \A n \in 1..Len(ops') : LoopEnds(n) => stage' = "complete"]_vars

\* the batch invocation n is inside its loop, at index ops[n].i
InLoop(n) == ops[n].kind = "batch" /\ ops[n].pc \in {"delay", "gen"}

\* completedScenes is the index the loop works on, below totalScenes
ProgressInLoop ==
  /\ \A n \in 1..Len(ops) : InLoop(n) => completedScenes = ops[n].i
  /\ stage = "generating" => (0 <= completedScenes /\ completedScenes < totalScenes)

\* C28: while a batch loop works on the scene at index i, completedScenes is
\* i, and 0 <= completedScenes < totalScenes while stage is generating; in
\* the step in which a loop runs to its end, completedScenes and totalScenes
\* both become the number of scenes.
C28_ProgressCounters ==
  /\ []ProgressInLoop
  /\ [][\A n \in 1..Len(ops') :
          LoopEnds(n) => (completedScenes' = totalScenes' /\ totalScenes' = Len(scenes'))]_vars

\* =====================================================================
\* The controller of the cooldown revisions: src/unnamed/part_000, App of
\* lines 1-554 (and 555-1071).  The editor view, the dialogs and the start of
\* startProcessing read as in src/App.tsx; the generation loop has no pause
\* between requests and waits out a rate limit instead of returning.
\* =====================================================================

\* setCooldownTime(30); let remaining = 30
CooldownSeconds == 30

\* an i-- that is left out: the loop's increment moves on to the next scene
NextIndexAfterQuota(i) == i + 1

\* a loop that gives up after a countdown
PastLastScene(i) == i + NumScenes

\* i--; continue: the index the loop takes up after the countdown
RetryIndex(i) == i

\* the generation loop from index i0 up to its next await
CooldownLoop(n, o, i0, local, stg, tot) ==
  LET i == SkipCompleted(local, i0) IN
  IF i >= Len(local)
  THEN /\ stage' = "complete"
       /\ totalScenes' = Len(local)
       /\ completedScenes' = Len(local)
       /\ scenes' = local
       /\ ops' = [ops EXCEPT ![n] = Returned([o EXCEPT !.i = i])]
       /\ reqLog' = reqLog
  ELSE LET sc == local[i + 1]
           l2 == [local EXCEPT ![i + 1] = [sc EXCEPT !.status = "generating"]]
       IN /\ stage' = stg
          /\ totalScenes' = tot
          /\ completedScenes' = i
          /\ scenes' = l2
          /\ ops' = [ops EXCEPT ![n] =
                      [o EXCEPT !.pc = "gen", !.i = i, !.local = l2, !.scene = sc]]
          /\ reqLog' = reqLog \cup {Request(n, "generate", i, o.key)}

\* analyzeStoryText settles
CoolAnalyzeReturn ==
  \E n \in {m \in 1..Len(ops) : ops[m].pc = "analyze"} :
  \E out \in Outcomes :
  \E cnt \in IF out = "ok" THEN 1..NumScenes ELSE {1} :
  \E ids \in IF out = "ok" THEN SceneIdLists(cnt) ELSE {<<1>>} :
    LET o == ops[n] IN
    /\ UNCHANGED <<hasText, currentApiKey, newKeyInput, showApiKeyModal, cooldownTime>>
    /\ IF out = "ok"
       THEN /\ CooldownLoop(n, [o EXCEPT !.outcome = out], 0, AnalysisScenes(ids),
                            "generating", cnt)
            /\ UNCHANGED <<showRateLimitModal, retryStartIndex>>
       ELSE AnalysisFailed(n, o, out)

\* the rate-limited generation requests of the first k invocations
RECURSIVE QuotaFailures(_)
QuotaFailures(k) == IF k = 0 THEN 0 ELSE ops[k].quotas + QuotaFailures(k - 1)

\* generateImageForScene settles inside the loop; limited: the model lets at
\* most MaxQuotaFailures requests be rate limited, otherwise any number (the
\* count then stops at MaxQuotaFailures)
CoolGenSettles(limited) ==
  \E n \in {m \in 1..Len(ops) : ops[m].kind = "batch" /\ ops[m].pc = "gen"} :
  \E out \in Outcomes :
    LET o == ops[n]
        st == BatchStatus(out)
        img == IF out = "ok" THEN n ELSE o.scene.imageUrl
        l2 == [o.local EXCEPT ![o.i + 1] = [o.scene EXCEPT !.status = st, !.imageUrl = img,
                                                        !.everCompleted = @ \/ st = "completed"]]
        o2 == [o EXCEPT !.outcome = out, !.outStatus = st, !.outImage = img]
    IN
    /\ UNCHANGED <<hasText, currentApiKey, newKeyInput, showApiKeyModal,
                   showRateLimitModal, retryStartIndex>>
    /\ IF out = "quota"
       THEN /\ limited => QuotaFailures(Len(ops)) < MaxQuotaFailures
            /\ scenes' = l2
            /\ cooldownTime' = CooldownSeconds
            /\ ops' = [ops EXCEPT ![n] = [o2 EXCEPT !.pc = "cooldown", !.local = l2,
                                                    !.remaining = CooldownSeconds,
                                                    !.quotas = Min(o.quotas + 1,
                                                                   MaxQuotaFailures)]]
            /\ UNCHANGED <<stage, totalScenes, completedScenes, reqLog>>
       ELSE /\ CooldownLoop(n, o2, o.i + 1, l2, stage, totalScenes)
            /\ UNCHANGED cooldownTime

CoolGenReturn == CoolGenSettles(TRUE)

\* await wait(1000) of the countdown settles
CooldownTick ==
  \E n \in {m \in 1..Len(ops) : ops[m].pc = "cooldown"} :
    LET o == ops[n]
        remaining == o.remaining - 1
    IN
    /\ UNCHANGED <<hasText, currentApiKey, newKeyInput, showApiKeyModal,
                   showRateLimitModal, retryStartIndex>>
    /\ cooldownTime' = remaining
    /\ IF remaining > 0
       THEN /\ ops' = [ops EXCEPT ![n].remaining = remaining]
            /\ UNCHANGED <<stage, totalScenes, completedScenes, scenes, reqLog>>
       ELSE CooldownLoop(n, [o EXCEPT !.remaining = 0], RetryIndex(o.i), o.local,
                         stage, totalScenes)

\* "regenerate all" of the result view: startProcessing(0)
RegenerateAll ==
  /\ CompleteView
  /\ Len(ops) < MaxOps
  /\ startProcessing(0, FALSE, 0, -1)
  /\ UNCHANGED <<hasText, currentApiKey, newKeyInput, showRateLimitModal, retryStartIndex,
                 cooldownTime>>

\* "retry later" of the loading view's rate-limit dialog
CloseRateLimit ==
  /\ LoadingView /\ showRateLimitModal
  /\ showRateLimitModal' = FALSE
  /\ UNCHANGED <<stage, totalScenes, completedScenes, scenes, hasText, currentApiKey,
                 newKeyInput, showApiKeyModal, retryStartIndex, ops, reqLog, cooldownTime>>

CoolFrame == UNCHANGED <<genVars, asmVars, sanVars, cmpVars, anaVars, bndVars>>

InitCool == CtlInit /\ GenIdle /\ AsmIdle /\ CoolIdle /\ SanIdle /\ CmpIdle /\ AnaIdle /\ BndIdle

NextCool ==
  \/ ClickStart /\ CtlFrame
  \/ EditText /\ CtlFrame
  \/ OpenApiKeyModal /\ CtlFrame
  \/ CloseApiKeyModal /\ CtlFrame
  \/ TypeKey /\ CtlFrame
  \/ handleSaveInitialKey /\ CtlFrame
  \/ handleResumeWithNewKey /\ CtlFrame
  \/ BackToEdit /\ CtlFrame
  \/ CloseRateLimit /\ CoolFrame
  \/ RegenerateAll /\ CoolFrame
  \/ CoolAnalyzeReturn /\ CoolFrame
  \/ CoolGenReturn /\ CoolFrame
  \/ CooldownTick /\ CoolFrame

SpecCool == InitCool /\ [][NextCool]_vars

\* C15: the cooldown loop.  In the step in which the request for the scene at
\* index i is rate limited the scene is published pending, cooldownTime is
\* 30 and the run waits at index i without issuing a request.  Every second
\* of the wait lowers cooldownTime by one; while it is above 0 the scene
\* stays pending in the run and nothing is requested, and in the step in which it
\* reaches 0 the run awaits a request for index i again, the scene published
\* generating.  cooldownTime is 0 whenever no run is waiting.  The scene is
\* not marked error and not passed over on the way.
C15_CooldownRetriesSameIndex ==
  [][\A n \in 1..Len(ops) :
       LET i == ops[n].i IN
       /\ (ops[n].pc = "gen" /\ ops'[n] # ops[n] /\ ops'[n].outcome = "quota") =>
            /\ ops'[n].pc = "cooldown"
            /\ ops'[n].i = i
            /\ scenes'[i + 1].status = "pending"
            /\ cooldownTime' = 30
            /\ stage' = stage
            /\ reqLog' = reqLog
       /\ (ops[n].pc = "cooldown" /\ ops'[n] # ops[n]) =>
            /\ cooldownTime' = ops[n].remaining - 1
            /\ ops'[n].i = i
            /\ IF cooldownTime' > 0
               THEN /\ ops'[n].pc = "cooldown"
                    /\ ops'[n].local[i + 1].status = "pending"
                    /\ reqLog' = reqLog
               ELSE /\ ops'[n].pc = "gen"
                    /\ scenes'[i + 1].status = "generating"
                    /\ Request(n, "generate", i, ops[n].key) \in reqLog'
       /\ ops[n].pc = "cooldown" =>
            /\ cooldownTime \in 1..30
            /\ cooldownTime = ops[n].remaining
            /\ ops[n].local[i + 1].status = "pending"
       /\ (\A m \in 1..Len(ops) : ops[m].pc # "cooldown") => cooldownTime = 0
    ]_vars

\* the run requests the second scene again after a countdown has run out
C15_Witness ==
  \E n \in 1..Len(ops) :
    /\ ops[n].pc = "gen" /\ ops[n].i = 1
    /\ ops[n].outcome = "quota" /\ ops[n].quotas = 1
    /\ scenes[2].status = "generating"
    /\ cooldownTime = 0

\* =====================================================================
\* The per-scene generation call: src/services/geminiService.ts
\* =====================================================================

Providers == {"official", "newcoin"}

\* What one submission to the image capability can come back with.
\*   image          a candidate with an inline image (or, newcoin, an image URL)
\*   noCandidate    response.candidates is empty
\*   safetyStop     finishReason contains SAFETY
\*   blockStop      finishReason RECITATION, OTHER or one containing BLOCK
\*   otherStop      any other finishReason that is not STOP
\*   noImage        finishReason STOP and no inlineData part
\*   throw429       the call rejects: RESOURCE_EXHAUSTED, code 429 or "429" in the message
\*   throwSafetyish the call rejects: SAFETY, PERMISSION_DENIED, 400 or 403 in the message
\*   throwOther     the call rejects with any other error
Responses(provider) ==
  IF provider = "newcoin"
  THEN {"image", "throw429", "throwSafetyish", "throwOther"}
  ELSE {"image", "noCandidate", "safetyStop", "blockStop", "otherStop", "noImage",
        "throw429", "throwSafetyish", "throwOther"}

\* a frame of generateImageForScene: prompt is "raw" (the scene's visualPrompt)
\* or "ultra" (ultraSafePrompt); pos is where the frame waits
Frame(prompt, isRetry) == [prompt |-> prompt, isRetry |-> isRetry, pos |-> "api"]

\* prompt.includes("Abstract cinematic composition")
IncludesAbstract(prompt) == prompt = "ultra" \/ gInput.hasAbstract

\* the prompt a frame submits: smartSanitizePrompt is applied on a retry unless
\* the prompt holds the ultra-safe phrase
SubmittedPrompt(f) ==
  IF f.isRetry /\ ~IncludesAbstract(f.prompt) THEN "sanitized"
  ELSE f.prompt

Front(s) == SubSeq(s, 1, Len(s) - 1)
Last(s) == s[Len(s)]

RECURSIVE Settle(_, _)
RECURSIVE Catch(_, _, _)

\* a catch block that tests for the sanitized retry before the rate limit
CatchRetriesQuota(rest, f, e) ==
  IF ~f.isRetry /\ e \in {"safetyish", "quota"}
  THEN [stack |-> rest \o <<[f EXCEPT !.pos = "catch"], Frame(f.prompt, TRUE)>>,
        res |-> "running", sub |-> <<SubmittedPrompt(Frame(f.prompt, TRUE))>>]
  ELSE Settle(rest, e)

\* the catch block of frame f (the frames below it are `rest`) for error e:
\* "quota" (429-like), "safetyish" (SAFETY / PERMISSION_DENIED / 400 / 403
\* in the message) or "other"
Catch(rest, f, e) ==
  IF e = "quota"
  THEN Settle(rest, "quota")
  ELSE IF ~f.isRetry /\ e = "safetyish"
  THEN [stack |-> rest \o <<[f EXCEPT !.pos = "catch"], Frame(f.prompt, TRUE)>>,
        res |-> "running", sub |-> <<SubmittedPrompt(Frame(f.prompt, TRUE))>>]
  ELSE Settle(rest, e)

\* the innermost call settled with v ("image" or an error): every awaiting
\* frame returns it, or handles it in its catch block when it awaited in try
Settle(rest, v) ==
  IF rest = <<>>
  THEN [stack |-> <<>>, res |-> v, sub |-> <<>>]
  ELSE IF v = "image" \/ Last(rest).pos = "catch"
  THEN Settle(Front(rest), v)
  ELSE Catch(Front(rest), Last(rest), v)

\* a self-invocation that passes isRetry = false
RecurseAsFirstCall(rest, f, prompt) ==
  [stack |-> rest \o <<[f EXCEPT !.pos = "try"], Frame(prompt, FALSE)>>,
   res |-> "running", sub |-> <<SubmittedPrompt(Frame(prompt, FALSE))>>]

\* frame f calls itself from its try block
Recurse(rest, f, prompt) ==
  [stack |-> rest \o <<[f EXCEPT !.pos = "try"], Frame(prompt, TRUE)>>,
   res |-> "running", sub |-> <<SubmittedPrompt(Frame(prompt, TRUE))>>]

\* the body of generateImageForScene after the capability answered r
OnResponse(rest, f, r) ==
  CASE r = "image" -> Settle(rest, "image")
    [] r = "noCandidate" -> Catch(rest, f, "other")
    [] r \in {"safetyStop", "blockStop"} ->
         IF ~f.isRetry THEN Recurse(rest, f, f.prompt)
         ELSE IF ~IncludesAbstract(f.prompt) THEN Recurse(rest, f, "ultra")
         ELSE Catch(rest, f, IF r = "safetyStop" THEN "safetyish" ELSE "other")
    [] r = "otherStop" -> Catch(rest, f, "other")
    [] r = "noImage" ->
         IF ~f.isRetry THEN Recurse(rest, f, f.prompt)
         ELSE Catch(rest, f, "other")
    [] r = "throw429" -> Catch(rest, f, "quota")
    [] r = "throwSafetyish" -> Catch(rest, f, "safetyish")
    [] OTHER -> Catch(rest, f, "other")

GenInit ==
  /\ gStack = <<>>
  /\ gSubmitted = <<>>
  /\ gAnswers = <<>>
  /\ gResult = "idle"
  /\ gInput \in [isRetry : BOOLEAN, hasAbstract : BOOLEAN, provider : Providers]

\* the caller invokes generateImageForScene(visualPrompt, key, id, isRetry)
generateImageForScene ==
  /\ gResult = "idle"
  /\ gStack' = <<Frame("raw", gInput.isRetry)>>
  /\ gSubmitted' = <<SubmittedPrompt(Frame("raw", gInput.isRetry))>>
  /\ gResult' = "running"
  /\ UNCHANGED <<gInput, gAnswers>>

\* the image capability answers the outstanding submission
CapabilityResponds ==
  /\ gResult = "running"
  /\ \E r \in Responses(gInput.provider) :
       LET nxt == OnResponse(Front(gStack), Last(gStack), r) IN
       /\ gStack' = nxt.stack
       /\ gResult' = nxt.res
       /\ gSubmitted' = gSubmitted \o nxt.sub
       /\ gAnswers' = Append(gAnswers, r)
  /\ UNCHANGED gInput

CtlIdle ==
  /\ stage = "idle"
  /\ totalScenes = 0
  /\ completedScenes = 0
  /\ scenes = <<>>
  /\ hasText = FALSE
  /\ currentApiKey = 0
  /\ newKeyInput = 0
  /\ showRateLimitModal = FALSE
  /\ showApiKeyModal = FALSE
  /\ retryStartIndex = 0
  /\ ops = IdleOps
  /\ reqLog = {}

GenFrame == UNCHANGED <<ctlVars, asmVars, coolVars, sanVars, cmpVars, anaVars, bndVars>>

InitGen == CtlIdle /\ GenInit /\ AsmIdle /\ CoolIdle /\ SanIdle /\ CmpIdle /\ AnaIdle /\ BndIdle

NextGen ==
  \/ generateImageForScene /\ GenFrame
  \/ CapabilityResponds /\ GenFrame

SpecGen == InitGen /\ [][NextGen]_vars

Count(s, x) == Cardinality({k \in 1..Len(s) : s[k] = x})

\* C3: a call started by the batch (isRetry = false) submits to the image
\* capability at most three times, the ultra-safe fallback at most once.
C3_EscalationBounded ==
  ~gInput.isRetry => Len(gSubmitted) <= 3 /\ Count(gSubmitted, "ultra") <= 1

\* C16: a rate-limit answer of the capability (status RESOURCE_EXHAUSTED,
\* code 429 or a message containing 429), at whatever escalation level it
\* arrives, ends the call with the quota error: it is the last answer, the
\* call has settled with "quota", and no prompt was submitted after it.
C16_QuotaReachesCaller ==
  \A k \in 1..Len(gAnswers) :
    gAnswers[k] = "throw429" =>
      /\ k = Len(gAnswers)
      /\ gResult = "quota"
      /\ gStack = <<>>
      /\ Len(gSubmitted) = k

\* the rate limit arrived at the third submission of a batch call
C16_Witness ==
  /\ ~gInput.isRetry
  /\ Len(gAnswers) = 3
  /\ gAnswers[3] = "throw429"
  /\ gSubmitted[3] = "ultra"

\* =====================================================================
\* The document assembler: ArticlePreview (src/unnamed/part_000, 1072-1328)
\* A string is a sequence of one-character strings; offsets are 0-based as
\* in the source.
\* =====================================================================

NL == "\n"
\* the characters \s and trim() take for white space, of those in the texts
WhiteSpace == {" ", NL, "\t"}
\* the characters . does not match
LineTerminators == {NL, "\r"}
\* \w and the CJK range 一-龥, of the characters in the texts
WordChars == {"a", "b", "c", "d", "e", "f", "g", "h", "i", "n", "o", "p", "r", "s", "t",
              "u", "x", "z", "0", "1", "2", "_", "S", "I"}

\* String.prototype.toLowerCase on one character
LowerChar(c) == CASE c = "S" -> "s" [] c = "I" -> "i" [] OTHER -> c
ToLower(s) == [k \in 1..Len(s) |-> LowerChar(s[k])]

\* String.prototype.slice(a, b)
Slice(s, a, b) ==
  LET n == Len(s)
      from == IF a < 0 THEN Max(n + a, 0) ELSE Min(a, n)
      to == IF b < 0 THEN Max(n + b, 0) ELSE Min(b, n)
  IN SubSeq(s, from + 1, to)

SliceFrom(s, a) == Slice(s, a, Len(s))

StartsWithAt(s, pat, k) ==
  /\ k >= 0
  /\ k + Len(pat) <= Len(s)
  /\ SubSeq(s, k + 1, k + Len(pat)) = pat

SetMin(S) == CHOOSE x \in S : \A y \in S : x <= y
SetMax(S) == CHOOSE x \in S : \A y \in S : x >= y

\* String.prototype.trim
Trim(s) ==
  LET ink == {k \in 1..Len(s) : s[k] \notin WhiteSpace}
  IN IF ink = {} THEN <<>> ELSE SubSeq(s, SetMin(ink), SetMax(ink))

\* String.prototype.indexOf(pat, from): -1 when pat does not occur
IndexOf(s, pat, from) ==
  LET n == Len(s)
      f == Min(Max(from, 0), n)
      hits == {k \in f..(n - Len(pat)) :
                 pat = <<>> \/ (s[k + 1] = pat[1] /\ StartsWithAt(s, pat, k))}
  IN IF hits = {} THEN -1 ELSE SetMin(hits)

\* number of characters of s from offset k on that lie in set C, up to the first
\* that does not
RunLength(s, k, C) ==
  LET stops == {j \in k..(Len(s) - 1) : s[j + 1] \notin C}
  IN IF stops = {} THEN Max(Len(s) - k, 0) ELSE SetMin(stops) - k

\* number of characters of s just before offset k that lie in set C
RunLengthBack(s, k, C) ==
  LET stops == {j \in 1..k : s[j] \notin C}
  IN IF stops = {} THEN k ELSE k - SetMax(stops)

\* ---- findBeforeSectionOneIndex ----

\* a section-one header is accepted only past this offset
MinHeaderOffset == 50
\* the markers of "chapter one" and "main text" in the source's encoding,
\* characters that occur in no text of the model
LocalChapterOne == <<"L1", "L2", "L3">>
LocalMainText == <<"L4", "L5">>
IntroMarkers == << <<"#", "#", " ", "L6", "L7">>, <<"#", "#", " ", "L8", "L3">>,
                   <<"#", "#", " ", "i", "n", "t", "r", "o", "d", "u", "c", "t", "i", "o", "n">> >>

\* offset in t just after #{0,3}\s* matched from the start, or -1: the pattern
\* that follows never starts with # or white space
AfterHeadingPrefix(t) ==
  LET h == RunLength(t, 0, {"#"}) IN
  IF h > 3 THEN -1 ELSE h + RunLength(t, h, WhiteSpace)

\* \b at offset k of t, after a word character
WordBoundaryAt(t, k) == k >= Len(t) \/ t[k + 1] \notin WordChars

\* the five tests of isSectionOne on the trimmed, lower-cased line
IsSectionOne(line) ==
  LET t == ToLower(Trim(line))
      p == AfterHeadingPrefix(t)
      num == IF StartsWithAt(t, <<"0">>, p) THEN p + 1 ELSE p
      KeywordOne(word) ==
        /\ StartsWithAt(t, word, p)
        /\ LET q == p + Len(word) + RunLength(t, p + Len(word), WhiteSpace)
           IN StartsWithAt(t, <<"1">>, q) /\ WordBoundaryAt(t, q + 1)
  IN /\ p >= 0
     /\ \/ \E m \in {p, num} :
             /\ StartsWithAt(t, <<"1">>, m)
             /\ (m + 1 = Len(t) \/ t[m + 2] \in WhiteSpace \cup {"."})
        \/ KeywordOne(<<"s", "e", "c", "t", "i", "o", "n">>)
        \/ KeywordOne(<<"c", "h", "a", "p", "t", "e", "r">>)
        \/ StartsWithAt(t, LocalChapterOne, p)
        \/ StartsWithAt(t, LocalMainText, p)

\* the line-by-line scan: start offset of the first accepted header line, or -1
RECURSIVE ScanLines(_, _)
ScanLines(text, currentIndex) ==
  LET nl == IndexOf(text, <<NL>>, currentIndex)
      lineEnd == IF nl = -1 THEN Len(text) ELSE nl
      line == Slice(text, currentIndex, lineEnd)
  IN IF IsSectionOne(line) /\ currentIndex > MinHeaderOffset THEN currentIndex
     ELSE IF nl = -1 THEN -1
     ELSE ScanLines(text, nl + 1)

\* first offset p of slice where /^##\s/m matches, or -1
NextHeaderIndex(slice) ==
  LET hits == {p \in 0..(Len(slice) - 3) :
                 /\ (p = 0 \/ slice[p] \in LineTerminators)
                 /\ StartsWithAt(slice, <<"#", "#">>, p)
                 /\ slice[p + 3] \in WhiteSpace}
  IN IF hits = {} THEN -1 ELSE SetMin(hits)

\* the intro-marker fallback from marker m on: an offset, or -1
RECURSIVE IntroFallback(_, _)
IntroFallback(text, m) ==
  IF m > Len(IntroMarkers) THEN -1
  ELSE LET marker == IntroMarkers[m]
           startIdx == IndexOf(ToLower(text), marker, 0)
           searchFrom == startIdx + Len(marker)
           nextMatch == IF startIdx > -1 THEN NextHeaderIndex(SliceFrom(text, searchFrom))
                        ELSE -1
       IN IF nextMatch # -1 THEN searchFrom + nextMatch
          ELSE IntroFallback(text, m + 1)

\* Math.floor(n * 0.15)
FifteenPercent(n) == (n * 15) \div 100

\* a boundary that is the 15% mark whatever the text holds
FifteenPercentMark(text) == FifteenPercent(Len(text))

findBeforeSectionOneIndex(text) ==
  LET byLine == ScanLines(text, 0)
      byIntro == IntroFallback(text, 1)
  IN IF byLine # -1 THEN byLine
     ELSE IF byIntro # -1 THEN byIntro
     ELSE FifteenPercent(Len(text))

\* ---- the assembly pass (the first useEffect of ArticlePreview) ----

\* `<!--IMAGE_SCENE_${scene.id}-->`
Token(id) ==
  <<"<", "!", "-", "-", "I", "M", "A", "G", "E", "_", "S", "C", "E", "N", "E", "_">>
    \o <<ToString(id)>> \o <<"-", "-", ">">>

\* a filter that keeps the completed scenes only
IsCompleted(scene) == scene.status = "completed"
KeepCompleted(list) == SelectSeq(list, IsCompleted)

\* a filter that keeps every scene, pending or not
KeepEveryScene(list) == list

\* scenes.filter(s => s.status !== 'pending')
RECURSIVE FilterPlaced(_)
FilterPlaced(list) ==
  IF list = <<>> THEN <<>>
  ELSE IF list[1].status # "pending" THEN <<list[1]>> \o FilterPlaced(Tail(list))
  ELSE FilterPlaced(Tail(list))

\* the list left in the order it came in
KeepInputOrder(list) == list

\* .sort((a, b) => a.id - b.id), a stable sort
RECURSIVE SortById(_)
SortById(list) ==
  IF list = <<>> THEN <<>>
  ELSE LET rest == SortById(Tail(list))
           k == Cardinality({j \in 1..Len(rest) : rest[j].id < list[1].id})
       IN SubSeq(rest, 1, k) \o <<list[1]>> \o SubSeq(rest, k + 1, Len(rest))

ValidScenes(list) == SortById(FilterPlaced(list))

\* quote.split(/[^\w一-龥]+/): the maximal runs of word characters
\* (and the empty strings split leaves at the ends, which the filter drops)
RECURSIVE SplitWords(_, _)
SplitWords(q, k) ==
  IF k >= Len(q) THEN <<>>
  ELSE IF q[k + 1] \notin WordChars THEN SplitWords(q, k + 1)
  ELSE LET n == RunLength(q, k, WordChars)
       IN <<Slice(q, k, k + n)>> \o SplitWords(q, k + n)

RECURSIVE LongerThanOne(_)
LongerThanOne(ws) ==
  IF ws = <<>> THEN <<>>
  ELSE IF Len(ws[1]) > 1 THEN <<ws[1]>> \o LongerThanOne(Tail(ws))
  ELSE LongerThanOne(Tail(ws))

\* words.slice(0, 5)
MaxFuzzyWords == 5
\* '.{0,50}' between two words
FuzzyGap == 50
\* the fallback snaps to a newline fewer than 500 characters ahead
SnapWindow == 500

FuzzyWords(quote) == LongerThanOne(SplitWords(quote, 0))

\* characters from offset k on that . matches, up to the first it does not
DotRun(s, k) ==
  LET stops == {j \in k..(Len(s) - 1) : s[j + 1] \in LineTerminators}
  IN IF stops = {} THEN Max(Len(s) - k, 0) ELSE SetMin(stops) - k

\* the end offset of the match of w_k .{0,50} w_k+1 ... at offset pos of s, the
\* gaps greedy, or -1
RECURSIVE MatchWords(_, _, _, _)
MatchWords(s, ws, k, pos) ==
  IF ~StartsWithAt(s, ws[k], pos) THEN -1
  ELSE LET e == pos + Len(ws[k]) IN
       IF k = Len(ws) THEN e
       ELSE LET room == Min(FuzzyGap, DotRun(s, e))
                gaps == {g \in 0..room : MatchWords(s, ws, k + 1, e + g) # -1}
            IN IF gaps = {} THEN -1
               ELSE MatchWords(s, ws, k + 1, e + SetMax(gaps))

\* regex.exec(searchSlice): the leftmost match, or index -1
FuzzyExec(slice, words) ==
  LET ws == SubSeq(words, 1, Min(MaxFuzzyWords, Len(words)))
      starts == {p \in 0..(Len(slice) - 1) :
                   slice[p + 1] = ws[1][1] /\ MatchWords(slice, ws, 1, p) # -1}
  IN IF starts = {} THEN [index |-> -1, length |-> 0]
     ELSE LET p == SetMin(starts)
          IN [index |-> p, length |-> MatchWords(slice, ws, 1, p) - p]

\* an exact search that starts at the beginning of the text, whatever was
\* inserted before
LocateQuoteFromStart(md, quote, lastInsertIndex) ==
  LET exactIdx == IndexOf(md, quote, 0)
  IN IF exactIdx # -1 THEN [matchIndex |-> exactIdx + Len(quote), how |-> "exact"]
     ELSE [matchIndex |-> -1, how |-> "none"]

\* where the branch for scene ids other than 1 finds the quote: matchIndex and
\* how, or -1
LocateQuote(md, quote, lastInsertIndex) ==
  LET exactIdx == IndexOf(md, quote, lastInsertIndex)
      words == FuzzyWords(quote)
      m == IF words = <<>> THEN [index |-> -1, length |-> 0]
           ELSE FuzzyExec(SliceFrom(md, lastInsertIndex), words)
  IN IF exactIdx # -1 THEN [matchIndex |-> exactIdx + Len(quote), how |-> "exact"]
     ELSE IF m.index # -1
     THEN [matchIndex |-> lastInsertIndex + m.index + m.length, how |-> "fuzzy"]
     ELSE [matchIndex |-> -1, how |-> "none"]

\* scene 1: sectionOneStart + insertionOffset with the bounds check
CoverIndex(md, sectionOneStart, insertionOffset) ==
  LET m0 == sectionOneStart + insertionOffset
      m1 == IF m0 < 0 THEN 0 ELSE m0
  IN IF m1 > Len(md) THEN FifteenPercent(Len(md)) ELSE m1

\* a fallback that moves to the next newline however far it is
FallbackAtNextNewline(md, lastInsertIndex, scenesRemaining) ==
  LET targetIndex == lastInsertIndex + (Len(md) - lastInsertIndex) \div (scenesRemaining + 1)
      nextNewline == IndexOf(md, <<NL>>, targetIndex)
  IN IF nextNewline # -1 THEN nextNewline ELSE targetIndex

\* a fallback that always answers the start of the text
FallbackAtStart(md, lastInsertIndex, scenesRemaining) == 0

\* the fallback distribution for a scene whose quote was not found
FallbackIndex(md, lastInsertIndex, scenesRemaining) ==
  LET remainingSpace == Len(md) - lastInsertIndex
      chunk == remainingSpace \div (scenesRemaining + 1)
      targetIndex == lastInsertIndex + chunk
      nextNewline == IndexOf(md, <<NL>>, targetIndex)
  IN IF nextNewline # -1 /\ nextNewline - targetIndex < SnapWindow THEN nextNewline
     ELSE targetIndex

\* a splice that writes over the character at the insertion offset
SpliceOver(md, at, token) ==
  Slice(md, 0, at) \o <<NL>> \o token \o <<NL>> \o SliceFrom(md, at + 1)

\* the insertion of a token between two newlines at offset at
Splice(md, at, token) == Slice(md, 0, at) \o <<NL>> \o token \o <<NL>> \o SliceFrom(md, at)

\* an iteration that looks every scene up by its quote, scene 1 included
PlaceSceneByQuote(st, scene, index, count, sectionOneStart) ==
  LET token == Token(scene.id)
      quote == Trim(scene.quote)
      found == LocateQuote(st.md, quote, st.lastInsertIndex)
      at == IF found.matchIndex # -1 THEN found.matchIndex
            ELSE FallbackIndex(st.md, st.lastInsertIndex, count - index)
  IN [md |-> Splice(st.md, at, token),
      lastInsertIndex |-> at + Len(token) + 2,
      insertionOffset |-> st.insertionOffset + Len(token) + 2,
      placed |-> Append(st.placed,
                   [id |-> scene.id, at |-> at,
                    how |-> IF found.matchIndex # -1 THEN found.how ELSE "fallback",
                    quote |-> quote, before |-> st.md, from |-> st.lastInsertIndex])]

\* one iteration of validScenes.forEach: st holds modifiedMarkdown,
\* lastInsertIndex, insertionOffset and the log of placements
PlaceScene(st, scene, index, count, sectionOneStart) ==
  LET token == Token(scene.id)
      quote == Trim(scene.quote)
      found == IF scene.id = 1
               THEN [matchIndex |-> CoverIndex(st.md, sectionOneStart, st.insertionOffset),
                     how |-> "cover"]
               ELSE LocateQuote(st.md, quote, st.lastInsertIndex)
      at == IF found.matchIndex # -1 THEN found.matchIndex
            ELSE FallbackIndex(st.md, st.lastInsertIndex, count - index)
  IN [md |-> Splice(st.md, at, token),
      lastInsertIndex |-> at + Len(token) + 2,
      insertionOffset |-> st.insertionOffset + Len(token) + 2,
      placed |-> Append(st.placed,
                   [id |-> scene.id, at |-> at,
                    how |-> IF found.matchIndex # -1 THEN found.how ELSE "fallback",
                    quote |-> quote, before |-> st.md, from |-> st.lastInsertIndex])]

RECURSIVE PlaceAll(_, _, _, _)
PlaceAll(st, valid, index, sectionOneStart) ==
  IF index >= Len(valid) THEN st
  ELSE PlaceAll(PlaceScene(st, valid[index + 1], index, Len(valid), sectionOneStart),
                valid, index + 1, sectionOneStart)

\* the markup fragments of a scene, as sequences of elements
InteractiveHtml(scene) ==
  IF scene.status = "completed" /\ scene.imageUrl # 0
  THEN <<"[div]", "[img]", "[button.regen-btn]", "[badge]", "[/div]">>
  ELSE IF scene.status = "error"
  THEN <<"[div.error]", "[button.regen-btn]", "[/div]">>
  ELSE IF scene.status = "generating"
  THEN <<"[div.spinner]", "[/div]">>
  ELSE <<>>

\* an export fragment that is the fragment of the interactive view
CleanAsInteractive(scene) == InteractiveHtml(scene)

CleanHtml(scene) ==
  IF scene.status = "completed" /\ scene.imageUrl # 0
  THEN <<"[div]", "[img]", "[/div]">>
  ELSE <<>>

POpen == <<"<", "p", ">">>
PClose == <<"<", "/", "p", ">">>

\* offset of the first comment token of ids in md at or after from, or -1
NextToken(md, ids, from) ==
  LET hits == {IndexOf(md, Token(id), from) : id \in ids} \ {-1}
  IN IF hits = {} THEN -1 ELSE SetMin(hits)

\* window.marked.parse for a renderer that passes the text and the comment
\* tokens through and, when wrap, puts each comment token in a paragraph
RECURSIVE RenderMarkdown(_, _, _, _)
RenderMarkdown(md, ids, wrap, from) ==
  LET at == NextToken(md, ids, from)
      stop == at + Len(Token(CHOOSE id \in ids : StartsWithAt(md, Token(id), at)))
  IN IF ~wrap \/ at = -1 THEN SliceFrom(md, from)
     ELSE Slice(md, from, at) \o POpen \o Slice(md, at, stop) \o PClose
            \o RenderMarkdown(md, ids, wrap, stop)

\* html.replace(new RegExp(`(<p>\\s*)?${token}(\\s*<\\/p>)?`, 'g'), fragment),
\* from offset `from` on: the leftmost match starts at the <p> that white space
\* alone separates from the token, if there is one, and ends after the </p>
\* that white space alone separates from it
RECURSIVE ReplaceToken(_, _, _, _)
ReplaceToken(html, token, fragment, from) ==
  LET at == IndexOf(html, token, from)
      ws0 == RunLengthBack(html, at, WhiteSpace)
      pre == at - ws0 - Len(POpen)
      start == IF pre >= from /\ StartsWithAt(html, POpen, pre) THEN pre ELSE at
      e == at + Len(token)
      ws1 == RunLength(html, e, WhiteSpace)
      stop == IF StartsWithAt(html, PClose, e + ws1) THEN e + ws1 + Len(PClose) ELSE e
  IN IF at = -1 THEN SliceFrom(html, from)
     ELSE Slice(html, from, start) \o fragment \o ReplaceToken(html, token, fragment, stop)

\* scenes.forEach over the whole list; a scene that was not placed has no
\* entry in the dictionaries: its fragment is ''
RECURSIVE ReplaceTokens(_, _, _)
ReplaceTokens(html, list, clean) ==
  IF list = <<>> THEN html
  ELSE LET scene == list[1]
           fragment == IF scene.status = "pending" THEN <<>>
                       ELSE IF clean THEN CleanHtml(scene) ELSE InteractiveHtml(scene)
       IN ReplaceTokens(ReplaceToken(html, Token(scene.id), fragment, 0), Tail(list), clean)

\* the placement pass: modifiedMarkdown and the log of placements after
\* validScenes.forEach
PlaceTokens(text, list) ==
  LET valid == ValidScenes(list)
      start == [md |-> text, lastInsertIndex |-> 0, insertionOffset |-> 0, placed |-> <<>>]
  IN PlaceAll(start, valid, 0, findBeforeSectionOneIndex(text))

\* the RenderedResult handed to onResultReady (placed is the log of placements)
AssembleDocument(text, list, wrap) ==
  LET final == PlaceTokens(text, list)
      rawHtml == RenderMarkdown(final.md, {list[k].id : k \in 1..Len(list)}, wrap, 0)
  IN [markdownWithImages |-> final.md,
      htmlContent |-> ReplaceTokens(rawHtml, list, FALSE),
      cleanHtmlContent |-> ReplaceTokens(rawHtml, list, TRUE),
      placed |-> final.placed,
      ready |-> TRUE]

\* ---- the inputs of the assembly specification ----

\* body segments a text has at most
MaxSegs == 2
\* scene ids run from 1 to
MaxSceneId == 3

Repeat(c, n) == [k \in 1..n |-> c]

\* an opening paragraph longer than MinHeaderOffset
SegIntro == Repeat("x", 51) \o <<NL>>
\* a section-one header line
SegHeader == <<"#", "#", " ", "0", "1", NL>>
SegAbCd == <<"a", "b", " ", "c", "d", ".", " ">>
SegEfGh == <<"e", "f", " ", " ", "g", "h", NL>>

\* how a text opens: with nothing, a title that reads like a section-one
\* header, an introduction, an introduction and the header, or an
\* introduction with a line before the header
Openings == {<<>>, SegHeader, SegIntro, SegIntro \o SegHeader,
             SegIntro \o SegEfGh \o SegHeader}
BodySegments == {SegAbCd, SegEfGh}

RECURSIVE Concat(_)
Concat(ss) == IF ss = <<>> THEN <<>> ELSE ss[1] \o Concat(Tail(ss))

Bodies == {Concat(ss) : ss \in UNION {[1..n -> BodySegments] : n \in 0..MaxSegs}}
\* a paragraph without a line break that is longer than two snap windows
SegLong == Repeat("x", 2 * SnapWindow + 100) \o <<NL>>
LongTexts == {SegAbCd \o SegLong \o SegEfGh}
Texts == ({o \o b : o \in Openings, b \in Bodies} \ {<<>>}) \cup LongTexts

\* verbatim in SegAbCd
QuoteExact == <<"a", "b", " ", "c", "d">>
\* the words of SegEfGh, one space less, white space around
QuoteFuzzy == <<" ", "e", "f", " ", "g", "h", " ">>
\* no relation to any text
QuoteUnrelated == <<"z", "z">>
QuoteEmpty == <<>>
\* one-character tokens and regex metacharacters only
QuoteSymbols == <<"a", ".", " ", "(", "b", "*">>
\* the last word of SegEfGh and the first of SegAbCd, a space for the line break
QuoteAcrossLines == <<"g", "h", " ", "a", "b">>
Quotes == {QuoteExact, QuoteFuzzy, QuoteUnrelated, QuoteEmpty, QuoteSymbols, QuoteAcrossLines}

\* a scene as the assembler reads it: the cover scene, any other scene
CoverOptions ==
  { [status |-> "pending", quote |-> QuoteUnrelated, imageUrl |-> 0],
    [status |-> "completed", quote |-> QuoteExact, imageUrl |-> 1] }
SceneOptions ==
  { [status |-> "pending", quote |-> QuoteExact, imageUrl |-> 0],
    [status |-> "completed", quote |-> QuoteExact, imageUrl |-> 1],
    [status |-> "completed", quote |-> QuoteFuzzy, imageUrl |-> 1],
    [status |-> "error", quote |-> QuoteUnrelated, imageUrl |-> 0],
    [status |-> "generating", quote |-> QuoteEmpty, imageUrl |-> 0],
    [status |-> "error", quote |-> QuoteSymbols, imageUrl |-> 1],
    [status |-> "completed", quote |-> QuoteAcrossLines, imageUrl |-> 1] }

AsmScene(id, opt) ==
  [id |-> id, quote |-> opt.quote, status |-> opt.status, imageUrl |-> opt.imageUrl]

\* the scene lists: ids n..1, in the descending order that makes the sort work
SceneLists ==
  UNION {{[k \in 1..n |-> AsmScene(n + 1 - k, f[n + 1 - k])] :
            f \in {g \in [1..n -> SceneOptions \cup CoverOptions] :
                     /\ n >= 1 => g[1] \in CoverOptions
                     /\ \A j \in 2..n : g[j] \in SceneOptions}}
           : n \in 0..MaxSceneId}

AsmInit ==
  /\ fullText \in Texts
  /\ aScenes \in SceneLists
  /\ wrapInP = FALSE
  /\ result = NoResult

\* the effect runs for the props fullText, scenes
Assemble ==
  /\ ~result.ready
  /\ fullText # <<>>
  /\ \E wrap \in BOOLEAN :
       /\ wrapInP' = wrap
       /\ result' = AssembleDocument(fullText, aScenes, wrap)
  /\ UNCHANGED <<fullText, aScenes>>

\* the list with the quote of scene id replaced by q
WithQuote(list, id, q) ==
  [k \in 1..Len(list) |-> IF list[k].id = id THEN [list[k] EXCEPT !.quote = q] ELSE list[k]]

AsmFrame == UNCHANGED <<ctlVars, genVars, coolVars, sanVars, cmpVars, anaVars, bndVars>>

InitAsm == CtlIdle /\ GenIdle /\ AsmInit /\ CoolIdle /\ SanIdle /\ CmpIdle /\ AnaIdle /\ BndIdle

NextAsm == Assemble /\ AsmFrame

SpecAsm == InitAsm /\ [][NextAsm]_vars

\* ---- properties of the assembly ----

Md == result.markdownWithImages
Placed == result.placed

\* the offsets at which pat occurs in s
Occurrences(s, pat) == {k \in 0..(Len(s) - Len(pat)) : StartsWithAt(s, pat, k)}

NonPending == {k \in 1..Len(aScenes) : aScenes[k].status # "pending"}
NonPendingIds == {aScenes[k].id : k \in NonPending}
SceneIds == {aScenes[k].id : k \in 1..Len(aScenes)}

\* C5: for a text that holds no token of its own, markdownWithImages holds
\* exactly one token for each scene that is not pending and none for a pending
\* scene, and neither htmlContent nor cleanHtmlContent holds a literal token
\* after the substitution, whether or not the renderer wrapped the tokens in
\* paragraphs.
C5_OneTokenPerPlacedScene ==
  result.ready =>
    /\ \A k \in 1..Len(aScenes) :
         Cardinality(Occurrences(Md, Token(aScenes[k].id)))
           = IF aScenes[k].status = "pending" THEN 0 ELSE 1
    /\ \A id \in SceneIds :
         /\ Occurrences(result.htmlContent, Token(id)) = {}
         /\ Occurrences(result.cleanHtmlContent, Token(id)) = {}

\* an assembly of a list with a pending and a placed scene, tokens wrapped
C5_Witness ==
  /\ result.ready
  /\ wrapInP
  /\ NonPending # {}
  /\ \E k \in 1..Len(aScenes) : aScenes[k].status = "pending"

\* C6 (as stated): the token of every placed scene other than scene 1 whose
\* trimmed quote occurs verbatim in fullText stands immediately after an
\* occurrence of that quote.
C6_TokenAfterQuoteAnywhere ==
  result.ready =>
    \A k \in NonPending :
      LET q == Trim(aScenes[k].quote) IN
      (aScenes[k].id # 1 /\ Occurrences(fullText, q) # {}) =>
        \E p \in Occurrences(Md, q) :
          StartsWithAt(Md, <<NL>> \o Token(aScenes[k].id), p + Len(q))

\* C6: the token of every placed scene other than scene 1 whose trimmed quote
\* occurs in the working text at or after the last insertion offset is
\* inserted immediately after the end of the first such occurrence.
C6_TokenAfterFirstQuoteFromLastInsert ==
  result.ready =>
    \A k \in 1..Len(Placed) :
      LET e == Placed[k]
          occ == {p \in Occurrences(e.before, e.quote) : p >= e.from}
      IN (e.id # 1 /\ occ # {}) =>
           /\ e.at = SetMin(occ) + Len(e.quote)
           /\ StartsWithAt(Md, e.quote \o <<NL>> \o Token(e.id), SetMin(occ))

\* a scene placed after its quote, found past an earlier token
C6_Witness ==
  /\ result.ready
  /\ \E k \in 1..Len(Placed) :
       /\ Placed[k].id # 1
       /\ Placed[k].how = "exact"
       /\ Placed[k].quote # <<>>
       /\ Placed[k].from > 0

\* C7: every placed scene, whatever its quote, is inserted at an offset between
\* 0 and the length of the working text, every scene that is not pending is
\* placed, and a scene whose quote is found neither exactly nor fuzzily is
\* placed by the proportional fallback: at the last insertion offset plus its
\* share of the rest, or at the next newline after that.
C7_OffsetsInRange ==
  result.ready =>
    /\ Len(Placed) = Cardinality(NonPending)
    /\ \A k \in 1..Len(Placed) :
         LET e == Placed[k]
             n == Len(e.before)
             chunk == (n - e.from) \div (Len(Placed) - (k - 1) + 1)
             unfound == e.id # 1 /\ LocateQuote(e.before, e.quote, e.from).how = "none"
         IN /\ 0 <= e.at /\ e.at <= n
            /\ unfound <=> e.how = "fallback"
            /\ unfound =>
                 /\ e.at >= e.from + chunk
                 /\ e.at = e.from + chunk \/ e.before[e.at + 1] = NL

\* scenes with a quote of symbols and with an unrelated quote, both placed by
\* the fallback, the second past the token of the first
C7_Witness ==
  /\ result.ready
  /\ \E j, k \in 1..Len(Placed) :
       /\ j < k
       /\ Placed[j].how = "fallback" /\ Placed[j].quote = Trim(QuoteSymbols)
       /\ Placed[k].how = "fallback" /\ Placed[k].quote = Trim(QuoteUnrelated)
       /\ Placed[k].from > 0

\* C8: the tokens of the scenes that are not pending stand in
\* markdownWithImages in ascending order of scene id, each starting after the
\* end of the token of every placed scene with a smaller id.
C8_TokensAscending ==
  result.ready =>
    \A i, j \in NonPendingIds :
      i < j =>
        LET pi == IndexOf(Md, Token(i), 0)
            pj == IndexOf(Md, Token(j), 0)
        IN pi # -1 /\ pj # -1 /\ pi + Len(Token(i)) <= pj

\* three scenes placed, one by exact match, one by the fallback
C8_Witness ==
  /\ result.ready
  /\ Cardinality(NonPendingIds) >= 3
  /\ \E k \in 1..Len(Placed) : Placed[k].how = "exact"
  /\ \E k \in 1..Len(Placed) : Placed[k].how = "fallback"

\* start offset of the first accepted section-one header line of fullText
HeaderOffset == ScanLines(fullText, 0)
CoverPlaced == 1 \in NonPendingIds

\* C9 (as stated): with the first accepted section-one header line at offset
\* h > 50 and scene 1 not pending, the token of scene 1 starts before offset h
\* of markdownWithImages.
C9_CoverTokenBeforeOffsetH ==
  (result.ready /\ CoverPlaced /\ HeaderOffset > MinHeaderOffset) =>
    IndexOf(Md, Token(1), 0) < HeaderOffset

\* C9: with the first accepted section-one header line at offset h > 50 and
\* scene 1 not pending, markdownWithImages holds the text before h unchanged,
\* a newline at offset h, the token of scene 1 from offset h + 1 to h + 21,
\* and the header line at the start of a later line.
C9_CoverTokenAtHeaderOffset ==
  (result.ready /\ CoverPlaced /\ HeaderOffset > MinHeaderOffset) =>
    LET h == HeaderOffset
        nl == IndexOf(fullText, <<NL>>, h)
        header == Slice(fullText, h, IF nl = -1 THEN Len(fullText) ELSE nl)
    IN /\ Slice(Md, 0, h) = Slice(fullText, 0, h)
       /\ IndexOf(Md, Token(1), 0) = h + 1
       /\ StartsWithAt(Md, <<NL>> \o Token(1) \o <<NL>>, h)
       /\ IndexOf(Md, <<NL>> \o header, h + Len(Token(1)) + 1) # -1

\* a scene 1 placed above a header that follows an introduction and a line
C9_Witness ==
  /\ result.ready
  /\ CoverPlaced
  /\ HeaderOffset > MinHeaderOffset + 2
  /\ Cardinality(NonPendingIds) >= 2

\* C10: the markdown of the assembly is the markdown of the assembly of the
\* same text and the same scenes with any other quote for scene 1.
C10_CoverIgnoresQuote ==
  result.ready =>
    \A q \in Quotes : PlaceTokens(fullText, WithQuote(aScenes, 1, q)).md = Md

\* a placed scene 1 whose quote occurs in the text, away from the boundary
C10_Witness ==
  /\ result.ready
  /\ \E k \in NonPending :
       /\ aScenes[k].id = 1
       /\ Occurrences(fullText, Trim(aScenes[k].quote)) # {}
       /\ \E q \in Quotes : q # aScenes[k].quote

\* the words ws[k..] occur in s in order, the first at offset pos, with at most
\* FuzzyGap characters of any kind between two consecutive words
RECURSIVE OccursInOrder(_, _, _, _)
OccursInOrder(s, ws, k, pos) ==
  /\ StartsWithAt(s, ws[k], pos)
  /\ \/ k = Len(ws)
     \/ \E g \in 0..Min(FuzzyGap, Len(s) - pos) :
          OccursInOrder(s, ws, k + 1, pos + Len(ws[k]) + g)

\* the first five words of length > 1 of a quote
FirstWords(quote) ==
  LET words == FuzzyWords(quote) IN SubSeq(words, 1, Min(MaxFuzzyWords, Len(words)))

\* the placements the fuzzy match is claimed to locate: a scene other than the
\* cover, no exact occurrence of the quote from the last insertion offset on,
\* and the first words in order in the remaining text within the gap budget
FuzzyCase(p) ==
  /\ p.id # 1
  /\ IndexOf(p.before, p.quote, p.from) = -1
  /\ FirstWords(p.quote) # <<>>
  /\ \E pos \in 0..Len(p.before) :
       OccursInOrder(SliceFrom(p.before, p.from), FirstWords(p.quote), 1, pos)

\* C12: a scene other than the cover whose quote has no exact occurrence after
\* the last insertion offset, but whose first five words of length > 1 occur in
\* the remaining text in order with at most 50 characters between consecutive
\* words, is located by the fuzzy match and not placed by the fallback.
C12_FuzzyLocatesWordsInOrder ==
  result.ready =>
    \A k \in 1..Len(Placed) : FuzzyCase(Placed[k]) => Placed[k].how = "fuzzy"

\* ---- further properties of the generation call (SpecGen) ----

\* C24: when the image capability answers the first submission of a call
\* made with isRetry = false with no candidate, the call does not fail in
\* that step: it submits once more, with the sanitized prompt.
C24_NoCandidateResubmits ==
  [][(/\ gResult = "running"
      /\ Len(gStack) = 1
      /\ ~Last(gStack).isRetry
      /\ gAnswers' = Append(gAnswers, "noCandidate"))
     => (/\ gResult' = "running"
         /\ gSubmitted' = Append(gSubmitted, SubmittedPrompt(Frame("raw", TRUE))))]_vars

\* ---------------------------------------------------------------------
\* analyzeStoryText and its acceptance by startProcessing
\* ---------------------------------------------------------------------

\* the scenes the prompt asks the text capability for
ExpectedScenes == 6
\* scenes in a response at most
MaxResponseScenes == 7

\* a scene of the parsed response: the schema gives it no status, the parsed
\* object may carry one all the same
ResponseScene(id, status) == [id |-> id, status |-> status]

\* id lists of n scenes: 1..n, n..1, 2..n+1, all 1, and 1..n with the last
\* id repeating the first
IdShapes(n) ==
  {[k \in 1..n |-> k], [k \in 1..n |-> n + 1 - k], [k \in 1..n |-> k + 1],
   [k \in 1..n |-> 1], [k \in 1..n |-> IF k = n THEN 1 ELSE k]}

\* the answers of the text capability: no text, or a JSON object whose scenes
\* array has up to MaxResponseScenes items
AnalysisResponses ==
  {NoResponse} \cup
  {[text |-> TRUE, scenes |-> [k \in 1..Len(ids) |-> ResponseScene(ids[k], st)]] :
     ids \in UNION {IdShapes(n) : n \in 0..MaxResponseScenes},
     st \in {"none", "completed"}}

\* analyzeStoryText after the await: the list it resolves with, or thrown
analyzeStoryText(resp) ==
  IF ~resp.text THEN [thrown |-> TRUE, scenes |-> <<>>]
  ELSE IF Len(resp.scenes) = 0 THEN [thrown |-> TRUE, scenes |-> <<>>]
  ELSE [thrown |-> FALSE,
        scenes |-> AnalysisScenes([k \in 1..Len(resp.scenes) |-> resp.scenes[k].id])]

AnaInit ==
  /\ anaResponse \in AnalysisResponses
  /\ anaAccepted = <<>>

\* startProcessing(0) up to the await of analyzeStoryText
AnaStart ==
  /\ stage = "idle"
  /\ hasText /\ currentApiKey # 0
  /\ stage' = "analyzing"
  /\ totalScenes' = 0
  /\ completedScenes' = 0
  /\ scenes' = <<>>
  /\ UNCHANGED <<hasText, currentApiKey, newKeyInput, showRateLimitModal,
                 showApiKeyModal, retryStartIndex, ops, reqLog, anaVars>>

\* startProcessing from the analysis result to the first await of the loop:
\* the list is accepted as it is (setScenes, totalScenes), then the scene at
\* index 0 is published generating; an error goes to the outer catch
AnaReturn ==
  /\ stage = "analyzing"
  /\ LET r == analyzeStoryText(anaResponse) IN
     IF r.thrown
     THEN /\ stage' = "error"
          /\ UNCHANGED <<totalScenes, completedScenes, scenes, anaAccepted>>
     ELSE /\ anaAccepted' = r.scenes
          /\ scenes' = [r.scenes EXCEPT ![1].status = "generating"]
          /\ stage' = "generating"
          /\ totalScenes' = Len(r.scenes)
          /\ completedScenes' = 0
  /\ UNCHANGED <<hasText, currentApiKey, newKeyInput, showRateLimitModal,
                 showApiKeyModal, retryStartIndex, ops, reqLog, anaResponse>>

AnaFrame == UNCHANGED <<genVars, asmVars, coolVars, sanVars, cmpVars, bndVars>>

InitAna ==
  /\ CtlInit /\ GenIdle /\ AsmIdle /\ CoolIdle /\ SanIdle /\ CmpIdle /\ AnaInit /\ BndIdle

NextAna ==
  \/ AnaStart /\ AnaFrame
  \/ AnaReturn /\ AnaFrame

SpecAna == InitAna /\ [][NextAna]_vars

\* C23: a scene list obtained from analysis and accepted by the controller
\* has exactly six scenes, one for each id 1..6 (so exactly one with id 1),
\* and every scene of it is pending.
C23_AcceptedListWellFormed ==
  anaAccepted # <<>> =>
    /\ Len(anaAccepted) = ExpectedScenes
    /\ \A id \in 1..ExpectedScenes :
         Cardinality({k \in 1..Len(anaAccepted) : anaAccepted[k].id = id}) = 1
    /\ \A k \in 1..Len(anaAccepted) : anaAccepted[k].status = "pending"

\* ---------------------------------------------------------------------
\* smartSanitizePrompt (geminiService.ts)
\* ---------------------------------------------------------------------

AsciiLower == <<"a", "b", "c", "d", "e", "f", "g", "h", "i", "j", "k", "l", "m",
                "n", "o", "p", "q", "r", "s", "t", "u", "v", "w", "x", "y", "z">>
AsciiUpper == <<"A", "B", "C", "D", "E", "F", "G", "H", "I", "J", "K", "L", "M",
                "N", "O", "P", "Q", "R", "S", "T", "U", "V", "W", "X", "Y", "Z">>
Range(f) == {f[k] : k \in DOMAIN f}
UpperCaseLetters == Range(AsciiUpper)
\* \w of a pattern without the u flag
RegexWordChars ==
  Range(AsciiLower) \cup UpperCaseLetters \cup {"_"}
    \cup {"0", "1", "2", "3", "4", "5", "6", "7", "8", "9"}

\* the case folding of the i flag, on the characters of the prompts: two
\* characters match when they fold to the same one
Canonicalize(c) ==
  IF c \in UpperCaseLetters
  THEN AsciiLower[CHOOSE k \in 1..26 : AsciiUpper[k] = c]
  ELSE c
FoldCase(s) == SubSeq([k \in 1..Len(s) |-> Canonicalize(s[k])], 1, Len(s))

\* the high-risk terms, in the order of the array
triggers == <<
  <<"b", "l", "o", "o", "d">>,
  <<"b", "l", "e", "e", "d", "i", "n", "g">>,
  <<"w", "o", "u", "n", "d">>,
  <<"i", "n", "j", "u", "r", "y">>,
  <<"i", "n", "j", "u", "r", "e", "d">>,
  <<"s", "c", "a", "r">>,
  <<"g", "u", "n">>,
  <<"p", "i", "s", "t", "o", "l">>,
  <<"k", "n", "i", "f", "e">>,
  <<"w", "e", "a", "p", "o", "n">>,
  <<"s", "w", "o", "r", "d">>,
  <<"k", "i", "l", "l">>,
  <<"m", "u", "r", "d", "e", "r">>,
  <<"d", "e", "a", "d">>,
  <<"c", "o", "r", "p", "s", "e">>,
  <<"f", "i", "g", "h", "t">>,
  <<"f", "i", "g", "h", "t", "i", "n", "g">>,
  <<"p", "u", "n", "c", "h">>,
  <<"k", "i", "c", "k">>,
  <<"h", "i", "t">>,
  <<"s", "t", "r", "a", "n", "g", "l", "e">>,
  <<"c", "h", "o", "k", "e">>,
  <<"b", "e", "a", "t">>,
  <<"a", "t", "t", "a", "c", "k">>,
  <<"n", "a", "k", "e", "d">>,
  <<"n", "u", "d", "e">>,
  <<"u", "n", "d", "r", "e", "s", "s", "e", "d">>,
  <<"s", "e", "x">>,
  <<"s", "e", "x", "u", "a", "l">>,
  <<"k", "i", "s", "s">>,
  <<"m", "a", "k", "i", "n", "g", " ", "o", "u", "t">>,
  <<"l", "i", "n", "g", "e", "r", "i", "e">>,
  <<"u", "n", "d", "e", "r", "w", "e", "a", "r">>,
  <<"s", "u", "i", "c", "i", "d", "e">>,
  <<"h", "a", "n", "g", "i", "n", "g">>,
  <<"a", "b", "u", "s", "e">>,
  <<"d", "r", "u", "g">>,
  <<"c", "i", "g", "a", "r", "e", "t", "t", "e">>,
  <<"s", "m", "o", "k", "i", "n", "g">>,
  <<"a", "l", "c", "o", "h", "o", "l">>,
  <<"b", "e", "d">>,
  <<"b", "e", "d", "r", "o", "o", "m">>,
  <<"s", "l", "e", "e", "p", "i", "n", "g">>,
  <<"i", "n", "t", "i", "m", "a", "t", "e">> >>

\* the characters of s at the offsets not in the set removed, in order
Without(s, removed) ==
  LET kept == (1..Len(s)) \ removed
      Nth(k) == CHOOSE x \in kept : Cardinality({y \in kept : y <= x}) = k
  IN IF removed = {} THEN s
     ELSE SubSeq([k \in 1..Cardinality(kept) |-> s[Nth(k)]], 1, Cardinality(kept))

\* the comparison of the pattern's literal characters with the text, without
\* the i flag
ExactCase(s) == s

\* the comparison of the pattern's literal characters with the text under
\* the i flag
IgnoreCase(s) == FoldCase(s)

\* safe.replace(new RegExp(`\\b${t}\\w*\\b`, 'gi'), ''): a match starts at a
\* word boundary where t occurs, case folded, and takes every word character
\* that follows (the greedy \w* stops before a non-word character or the end,
\* which is where the closing \b holds).  A term starts and ends with a
\* letter, so two matches of one term never overlap.
RemoveMatches(s, t) ==
  LET text == IgnoreCase(s)
      starts == {p \in 0..(Len(s) - Len(t)) :
                   /\ text[p + 1] = t[1]
                   /\ StartsWithAt(text, t, p)
                   /\ p = 0 \/ s[p] \notin RegexWordChars}
      MatchEnd(p) == p + Len(t) + RunLength(s, p + Len(t), RegexWordChars)
  IN Without(s, {k \in 1..Len(s) : \E p \in starts : p < k /\ k <= MatchEnd(p)})

\* triggers.forEach over the terms lo..hi, in the order of the array: the
\* terms of the first half, then those of the second on what the first left
RECURSIVE RemoveTerms(_, _, _)
RemoveTerms(s, lo, hi) ==
  IF lo = hi THEN RemoveMatches(s, triggers[lo])
  ELSE LET mid == (lo + hi) \div 2
           first == RemoveTerms(s, lo, mid)
       IN \* the test makes TLC evaluate first before it goes on
          IF Len(first) = 0 THEN first ELSE RemoveTerms(first, mid + 1, hi)

\* a result shorter than this gets the generic context appended
MinSafeLength == 20
GenericContext == <<",", " ", "e", "m", "o", "t", "i", "o", "n", "a", "l", " ", "a", "t", "m", "o", "s", "p", "h", "e", "r", "e", ",", " ", "d", "r", "a", "m", "a", "t", "i", "c", " ", "l", "i", "g", "h", "t", "i", "n", "g", ",", " ", "m", "o", "d", "e", "r", "n", " ", "s", "t", "y", "l", "e">>

\* a sanitizer that only removes the terms
RemoveOnly(p) == RemoveTerms(p, 1, Len(triggers))

smartSanitizePrompt(p) ==
  LET stripped == RemoveTerms(p, 1, Len(triggers))
  IN IF Len(stripped) < MinSafeLength THEN stripped \o GenericContext ELSE stripped

\* ---- the prompts of SpecSan: up to MaxPieces pieces in a row ----
MaxPieces == 4
PieceA == <<"a", " ">>
PieceBloody == <<"b", "l", "o", "o", "d", "y", " ">>
PieceKnife == <<"k", "n", "i", "f", "e", " ">>
PieceFight == <<"f", "i", "g", "h", "t">>
PieceKill == <<"K", "i", "l", "l">>
PieceMaking == <<"m", "a", "k", "i", "n", "g", " ">>
PieceOut == <<"o", "u", "t">>
PieceDrug == <<"d", "r", "u", "g", " ">>
PieceS == <<"s">>
PieceUnderscore == <<"_">>
PieceHyphen == <<"-">>
PieceStreet == <<"a", " ", "q", "u", "i", "e", "t", " ", "s", "t", "r", "e", "e", "t", " ", "a", "t", " ", "d", "a", "w", "n", " ">>
PromptPieces == {PieceA, PieceBloody, PieceKnife, PieceFight, PieceKill, PieceMaking, PieceOut, PieceDrug, PieceS, PieceUnderscore, PieceHyphen, PieceStreet}
Prompts == {Concat(ps) : ps \in UNION {[1..n -> PromptPieces] : n \in 0..MaxPieces}}

SanInit ==
  /\ sanPrompt \in Prompts
  /\ safe = <<>>
  /\ sanitized = FALSE

Sanitize ==
  /\ ~sanitized
  /\ safe' = smartSanitizePrompt(sanPrompt)
  /\ sanitized' = TRUE
  /\ UNCHANGED sanPrompt

SanFrame == UNCHANGED <<ctlVars, genVars, asmVars, coolVars, cmpVars, anaVars, bndVars>>

InitSan == CtlIdle /\ GenIdle /\ AsmIdle /\ CoolIdle /\ SanInit /\ CmpIdle /\ AnaIdle /\ BndIdle

NextSan == Sanitize /\ SanFrame

SpecSan == InitSan /\ [][NextSan]_vars

\* offsets of s at which a word starts
WordStarts(s) ==
  {p \in 0..(Len(s) - 1) :
     s[p + 1] \in RegexWordChars /\ (p = 0 \/ s[p] \notin RegexWordChars)}

\* a word of s starts with the term t, in any case
HasWordStarting(s, t) ==
  LET text == FoldCase(s)
  IN \E p \in 0..(Len(s) - Len(t)) :
       text[p + 1] = t[1] /\ StartsWithAt(text, t, p) /\ p \in WordStarts(s)

\* C21: for every prompt, the sanitized prompt contains no word that starts
\* with a term of the high-risk list, in whatever case the word is written and
\* whatever follows the term in the word.
C21_NoTriggerWordLeft ==
  sanitized => \A n \in 1..Len(triggers) : ~HasWordStarting(safe, triggers[n])

\* the prompt "a bloody knife fight" has been sanitized
C21_Witness ==
  /\ sanitized
  /\ sanPrompt = PieceA \o PieceBloody \o PieceKnife \o PieceFight
  /\ \E n \in 1..Len(triggers) : HasWordStarting(sanPrompt, triggers[n])

\* ---------------------------------------------------------------------
\* compressImage (geminiService.ts)
\* ---------------------------------------------------------------------

\* ---- binary64 arithmetic on the values quality takes ----
\* Every value is a whole number of units of 2^-56, kept as hi * 2^28 + lo.
Limb == 268435456
\* the literals 0.1, 0.8 and 0.95 as binary64
Tenth == [hi |-> 26843545, lo |-> 161061274]
StartQualitySmall == [hi |-> 214748364, lo |-> 214748368]
StartQualityLarge == [hi |-> 255013683, lo |-> 53687088]

Less(a, b) == a.hi < b.hi \/ (a.hi = b.hi /\ a.lo < b.lo)

\* a - b before rounding
ExactMinus(a, b) ==
  IF a.lo >= b.lo THEN [hi |-> a.hi - b.hi, lo |-> a.lo - b.lo]
  ELSE [hi |-> a.hi - b.hi - 1, lo |-> a.lo + Limb - b.lo]

\* the spacing of binary64 at x, in units: 2^-53 from 0.5 on, 2^-54 from 0.25
\* on, 2^-55 from 0.125 on, and no coarser than the unit below that
Ulp(x) ==
  IF x.hi >= 134217728 THEN 8
  ELSE IF x.hi >= 67108864 THEN 4
  ELSE IF x.hi >= 33554432 THEN 2
  ELSE 1

\* round to nearest, ties to even
RoundToNearestEven(x) ==
  LET u == Ulp(x)
      r == x.lo % u
      down == x.lo - r
      up == down + u
      pick == IF 2 * r < u THEN down
              ELSE IF 2 * r > u THEN up
              ELSE IF (down \div u) % 2 = 0 THEN down ELSE up
  IN IF pick = Limb THEN [hi |-> x.hi + 1, lo |-> 0] ELSE [hi |-> x.hi, lo |-> pick]

\* a - b in binary64
Minus(a, b) == RoundToNearestEven(ExactMinus(a, b))

\* ---- the call ----
\* the budgets generateImageForScene passes: cover and other scenes
CoverMaxSize == 300 * 1024
SceneMaxSize == 50 * 1024
MaxSizes == {CoverMaxSize, SceneMaxSize}
\* budgets above this start at the higher quality
HighQualityThreshold == 100 * 1024

\* lengths of the data URLs the canvas may return, whatever the quality
DataUrlLengths == {40000, 68000, 200000, 409600, 500000}

InitialQuality(max) ==
  IF max > HighQualityThreshold THEN StartQualityLarge ELSE StartQualitySmall

\* a size test on the length of the data URL alone
LengthExceeds(len, max) == len > max

\* dataUrl.length * 0.75 > maxSizeBytes (the product is exact in binary64)
SizeExceeds(len, max) == 3 * len > 4 * max

Pending == [with |-> "pending", len |-> 0]
Original == [with |-> "original", len |-> 0]
Encoded(len) == [with |-> "dataUrl", len |-> len]

CmpInit ==
  /\ maxSizeBytes \in MaxSizes
  /\ cmpPc = "loading"
  /\ quality = NoQuality
  /\ dataUrl = 0
  /\ encodes = <<>>
  /\ cmpFailure = "none"
  /\ resolved = Pending

\* resolve(imageUrlOrBase64) after a failure
ResolveOriginal(why) ==
  /\ resolved' = Original
  /\ cmpFailure' = why
  /\ cmpPc' = "resolved"
  /\ UNCHANGED <<maxSizeBytes, quality, dataUrl, encodes>>

\* img.onerror
OnError ==
  /\ cmpPc = "loading"
  /\ ResolveOriginal("decode")

\* img.onload up to the first toDataURL
OnLoad ==
  /\ cmpPc = "loading"
  /\ \E ctx \in BOOLEAN, drawn \in BOOLEAN :
       IF ~ctx THEN ResolveOriginal("context")
       ELSE IF ~drawn THEN ResolveOriginal("draw")
       ELSE /\ quality' = InitialQuality(maxSizeBytes)
            /\ cmpPc' = "encode"
            /\ UNCHANGED <<maxSizeBytes, dataUrl, encodes, cmpFailure, resolved>>

\* canvas.toDataURL throws inside the try block
ToDataURLThrows ==
  /\ cmpPc = "encode"
  /\ ResolveOriginal("encode")

\* canvas.toDataURL returns, then the loop test: another round at a lower
\* quality, or resolve(dataUrl)
ToDataURL ==
  /\ cmpPc = "encode"
  /\ \E len \in DataUrlLengths :
       /\ dataUrl' = len
       /\ encodes' = Append(encodes, [q |-> quality, len |-> len])
       /\ IF SizeExceeds(len, maxSizeBytes) /\ Less(Tenth, quality)
          THEN /\ quality' = Minus(quality, Tenth)
               /\ UNCHANGED <<cmpPc, resolved>>
          ELSE /\ resolved' = Encoded(len)
               /\ cmpPc' = "resolved"
               /\ UNCHANGED quality
       /\ UNCHANGED <<maxSizeBytes, cmpFailure>>

CmpFrame == UNCHANGED <<ctlVars, genVars, asmVars, coolVars, sanVars, anaVars, bndVars>>

InitCmp == CtlIdle /\ GenIdle /\ AsmIdle /\ CoolIdle /\ SanIdle /\ CmpInit /\ AnaIdle /\ BndIdle

NextCmp ==
  \/ OnError /\ CmpFrame
  \/ OnLoad /\ CmpFrame
  \/ ToDataURLThrows /\ CmpFrame
  \/ ToDataURL /\ CmpFrame

\* the browser fires load or error for an image whose src is set, and every
\* toDataURL call returns or throws
SpecCmp == InitCmp /\ [][NextCmp]_vars /\ WF_vars(NextCmp)

\* the step from quality a to quality b is 0.1 up to the rounding of one
\* subtraction (at most half of the coarsest spacing, 4 units)
StepOfTenth(a, b) ==
  /\ Less(b, a)
  /\ LET d == ExactMinus(a, b)
     IN d.hi = Tenth.hi /\ d.lo >= Tenth.lo - 4 /\ d.lo <= Tenth.lo + 4

\* the encoding at quality q with data URL length len ends the loop
StopsAt(e) == 3 * e.len <= 4 * maxSizeBytes \/ ~Less(Tenth, e.q)

CompressOutcome ==
  /\ (cmpFailure # "none") <=> (resolved = Original)
  /\ Len(encodes) <= 10
  /\ \A k \in 1..(Len(encodes) - 1) :
       /\ ~StopsAt(encodes[k])
       /\ StepOfTenth(encodes[k].q, encodes[k + 1].q)
  /\ resolved.with = "dataUrl" =>
       /\ encodes # <<>>
       /\ resolved.len = encodes[Len(encodes)].len
       /\ StopsAt(encodes[Len(encodes)])
  /\ (cmpPc = "encode" /\ encodes # <<>>) => ~StopsAt(encodes[Len(encodes)])

\* C22: compressImage always resolves; after a failure of decoding, of
\* getContext, of drawImage or of toDataURL it resolves with the original
\* reference; otherwise it encodes at qualities that go down by 0.1 a step,
\* at most ten times, and resolves with the first encoding whose size (0.75 x
\* the data URL length) is at most maxSizeBytes or whose quality is at most 0.1.
C22_CompressAlwaysResolves ==
  /\ []CompressOutcome
  /\ <>(resolved # Pending)

\* a scene image that stayed over its budget down to the last quality
C22_Witness ==
  /\ resolved.with = "dataUrl"
  /\ maxSizeBytes = SceneMaxSize
  /\ Len(encodes) = 9
  /\ 3 * resolved.len > 4 * maxSizeBytes

\* =====================================================================
\* One call of findBeforeSectionOneIndex (src/unnamed/part_000 1084-1133) on
\* a text built from heading lines, introduction markers and plain lines.
\* =====================================================================

\* most segments a text is built from
MaxBoundarySegs == 4

SegMarker == <<"#", "#", " ", "I", "n", "t", "r", "o", "d", "u", "c", "t", "i", "o", "n">>
SegLocalMarker == <<"#", "#", " ", "L6", "L7">>
SegSub == <<"#", "#", " ", "a", "b", NL>>
SegThird == <<"#", "#", "#", " ", "a", "b", NL>>
BoundarySegments == {SegIntro, SegHeader, SegMarker, SegLocalMarker, SegSub, SegThird,
                     SegEfGh, <<NL>>}

RECURSIVE TextsOf(_)
TextsOf(n) ==
  IF n = 0 THEN {<<>>}
  ELSE LET shorter == TextsOf(n - 1)
       IN shorter \cup {t \o seg : t \in shorter, seg \in BoundarySegments}

BoundaryTexts == TextsOf(MaxBoundarySegs)

BndInit ==
  /\ sectionText \in BoundaryTexts
  /\ boundaryOffset = 0
  /\ boundaryFound = FALSE

FindBoundary ==
  /\ ~boundaryFound
  /\ boundaryOffset' = findBeforeSectionOneIndex(sectionText)
  /\ boundaryFound' = TRUE
  /\ UNCHANGED sectionText

BndFrame == UNCHANGED <<ctlVars, genVars, asmVars, coolVars, sanVars, cmpVars, anaVars>>

InitBnd == CtlIdle /\ GenIdle /\ AsmIdle /\ CoolIdle /\ SanIdle /\ CmpIdle /\ AnaIdle /\ BndInit

NextBnd == FindBoundary /\ BndFrame

SpecBnd == InitBnd /\ [][NextBnd]_vars

\* start offsets of the lines of text, as split("\n") counts them
LineStarts(text) == {p \in 0..Len(text) : p = 0 \/ text[p] = NL}

\* the line of text that starts at offset p
LineAt(text, p) ==
  LET nl == IndexOf(text, <<NL>>, p)
  IN Slice(text, p, IF nl = -1 THEN Len(text) ELSE nl)

\* start offsets past 50 of the lines that are section-one headers
SectionOneLines(text) ==
  {p \in LineStarts(text) : p > MinHeaderOffset /\ IsSectionOne(LineAt(text, p))}

\* start offsets of the lines that begin with ## and white space
SecondLevelLines(text) ==
  {p \in LineStarts(text) :
     StartsWithAt(text, <<"#", "#">>, p) /\ p + 2 < Len(text) /\ text[p + 3] \in WhiteSpace}

\* offsets just after the first occurrence of each introduction marker
MarkerEnds(text) ==
  {IndexOf(ToLower(text), IntroMarkers[m], 0) + Len(IntroMarkers[m]) :
     m \in {k \in 1..Len(IntroMarkers) : IndexOf(ToLower(text), IntroMarkers[k], 0) # -1}}

\* for each introduction marker with a second-level line after it, the first
\* such line
HeadingsAfterMarker(text) ==
  {SetMin({q \in SecondLevelLines(text) : q >= e}) :
     e \in {f \in MarkerEnds(text) : \E q \in SecondLevelLines(text) : q >= f}}

BoundaryInRange == boundaryFound => (0 <= boundaryOffset /\ boundaryOffset <= Len(sectionText))

BoundaryBySectionOne ==
  (boundaryFound /\ SectionOneLines(sectionText) # {})
    => boundaryOffset = SetMin(SectionOneLines(sectionText))

BoundaryByFifteenPercent ==
  (boundaryFound /\ SectionOneLines(sectionText) = {} /\ HeadingsAfterMarker(sectionText) = {})
    => boundaryOffset = (15 * Len(sectionText)) \div 100

BoundaryByIntroduction ==
  (boundaryFound /\ SectionOneLines(sectionText) = {} /\ HeadingsAfterMarker(sectionText) # {})
    => boundaryOffset \in HeadingsAfterMarker(sectionText)

\* C29: the boundary is the start of the first section-one header line past
\* offset 50; without one, the start of the first line beginning with ## and
\* white space after an introduction marker; without that, 15% of the length
\* rounded down; and it always lies between 0 and the length of the text
C29_SectionBoundary ==
  /\ BoundaryInRange
  /\ BoundaryBySectionOne
  /\ BoundaryByIntroduction
  /\ BoundaryByFifteenPercent

\* ---- the proportional fallback of the assembly pass ----

\* the scenes placed without an anchor: not the cover, quote found neither
\* exactly nor fuzzily
Unanchored == {k \in 1..Len(Placed) :
                 /\ Placed[k].id # 1
                 /\ LocateQuote(Placed[k].before, Placed[k].quote, Placed[k].from).how = "none"}

\* the raw target of placement k: the last insertion offset plus the rest
\* divided by the scenes still to place, this one included, plus one
RawTarget(k) ==
  Placed[k].from + (Len(Placed[k].before) - Placed[k].from) \div ((Len(Placed) - (k - 1)) + 1)

\* offsets of the newlines of the working text of placement k at or after its
\* raw target
NewlinesFrom(k) ==
  {q \in RawTarget(k)..(Len(Placed[k].before) - 1) : Placed[k].before[q + 1] = NL}

\* C30: a scene whose anchor is not found is inserted at the last insertion
\* offset plus floor(rest / (scenes remaining + 1)), moved forward to the next
\* newline when that newline is less than 500 characters after the target,
\* and at the raw target otherwise
C30_ProportionalFallback ==
  result.ready =>
    \A k \in Unanchored :
      Placed[k].at = IF NewlinesFrom(k) # {} /\ SetMin(NewlinesFrom(k)) - RawTarget(k) < 500
                     THEN SetMin(NewlinesFrom(k))
                     ELSE RawTarget(k)

\* one assembly with an unanchored scene kept at its raw target although a
\* newline follows 500 or more characters later, and another moved forward to
\* a newline
C30_Witness ==
  /\ result.ready
  /\ \E k \in Unanchored :
       /\ NewlinesFrom(k) # {}
       /\ SetMin(NewlinesFrom(k)) - RawTarget(k) >= 500
       /\ Placed[k].at = RawTarget(k)
  /\ \E k \in Unanchored :
       /\ NewlinesFrom(k) # {}
       /\ Placed[k].at = SetMin(NewlinesFrom(k))
       /\ Placed[k].at > RawTarget(k)

\* ---- the substitution fragments of the assembly pass ----

\* scenes of the list with the given status
WithStatus(st) == {k \in 1..Len(aScenes) : aScenes[k].status = st}

\* the controls a fragment can carry
Controls == {"[button.regen-btn]"}

\* positions of htmlContent or cleanHtmlContent that hold a markup element of
\* a fragment, not a character of the text
MarkupAt(html) == {k \in 1..Len(html) : Len(html[k]) > 1}

\* C31: cleanHtmlContent holds one bare image per completed scene and nothing
\* else of any fragment, so no regenerate or retry control; htmlContent holds
\* an image with a regenerate control per completed scene, an error block with
\* a retry control per scene in error and a spinner per generating scene.
C31_FragmentsFollowStatus ==
  result.ready =>
    LET clean == result.cleanHtmlContent
        html == result.htmlContent
    IN /\ \A k \in MarkupAt(clean) : clean[k] \in {"[div]", "[img]", "[/div]"}
       /\ \A k \in MarkupAt(clean) :
            clean[k] = "[img]" => (clean[k - 1] = "[div]" /\ clean[k + 1] = "[/div]")
       /\ Count(clean, "[img]") = Cardinality(WithStatus("completed"))
       /\ Count(clean, "[div]") = Cardinality(WithStatus("completed"))
       /\ \A c \in Controls : Count(clean, c) = 0
       /\ Count(html, "[img]") = Cardinality(WithStatus("completed"))
       /\ Count(html, "[div.error]") = Cardinality(WithStatus("error"))
       /\ Count(html, "[div.spinner]") = Cardinality(WithStatus("generating"))
       /\ Count(html, "[button.regen-btn]")
            = Cardinality(WithStatus("completed")) + Cardinality(WithStatus("error"))
       /\ \A k \in MarkupAt(html) :
            /\ html[k] = "[img]" => html[k + 1] = "[button.regen-btn]"
            /\ html[k] = "[div.error]" => html[k + 1] = "[button.regen-btn]"
            /\ html[k] = "[div.spinner]" => html[k + 1] = "[/div]"

\* an assembly of a completed scene, a scene in error that kept an image and a
\* generating scene
C31_Witness ==
  /\ result.ready
  /\ WithStatus("completed") # {}
  /\ \E k \in WithStatus("error") : aScenes[k].imageUrl # 0
  /\ WithStatus("generating") # {}
  /\ Count(result.cleanHtmlContent, "[img]") = 1

\* ---- the padding of the sanitized prompt ----

\* the sanitized prompt ends with the neutral descriptor (no prompt of the
\* specification holds a comma of its own)
Padded ==
  /\ Len(safe) >= Len(GenericContext)
  /\ SubSeq(safe, Len(safe) - Len(GenericContext) + 1, Len(safe)) = GenericContext

\* C32: the sanitized prompt has at least 20 characters; the neutral
\* descriptor is at its end exactly when the text before it is shorter than 20
\* characters, and nothing of it is appended otherwise.
C32_NeverDegenerate ==
  sanitized =>
    /\ Len(safe) >= 20
    /\ Padded => Len(safe) - Len(GenericContext) < 20
    /\ ~Padded => \A k \in 1..Len(safe) : safe[k] # ","

\* a prompt of 20 characters or more that the removal of its terms left
\* shorter than 20, and that was padded
C32_Witness ==
  /\ sanitized
  /\ Len(sanPrompt) >= 20
  /\ Padded
  /\ Len(safe) - Len(GenericContext) > 0

\* ---- placement and generation progress ----

IsPlaced(scene) == scene.status # "pending"

\* the ids and quotes of the scenes that are not pending, in list order, with
\* one status and one image for all
IdsAndQuotes ==
  LET kept == SelectSeq(aScenes, IsPlaced)
  IN [k \in 1..Len(kept) |->
        [id |-> kept[k].id, quote |-> kept[k].quote, status |-> "completed", imageUrl |-> 1]]

\* C33: markdownWithImages is determined by fullText and the ids and quotes of
\* the scenes that are not pending: it is what the placement gives for the
\* same ids and quotes with every scene completed, so a change of a placed
\* scene's status among generating, completed and error, or of its imageUrl,
\* does not change it.
C33_PlacementIgnoresProgress ==
  result.ready => Md = PlaceTokens(fullText, IdsAndQuotes).md

\* an assembly with a pending scene, a generating scene and a scene in error
\* that kept an image, both placed
C33_Witness ==
  /\ result.ready
  /\ \E k \in 1..Len(aScenes) : aScenes[k].status = "pending"
  /\ \E k \in 1..Len(aScenes) :
       /\ aScenes[k].status = "generating"
       /\ Occurrences(Md, Token(aScenes[k].id)) # {}
  /\ \E k \in 1..Len(aScenes) :
       /\ aScenes[k].status = "error" /\ aScenes[k].imageUrl # 0
       /\ Occurrences(Md, Token(aScenes[k].id)) # {}

\* ---- images and completion ----

\* C34: in the published list a completed scene has an imageUrl, and a scene
\* that has never had status completed has none.
C34_ImageIffCompletedOnce ==
  \A k \in 1..Len(scenes) :
    /\ scenes[k].status = "completed" => scenes[k].imageUrl # 0
    /\ ~scenes[k].everCompleted => scenes[k].imageUrl = 0

\* a scene in error that keeps the image of an earlier completion next to a
\* scene in error that was never completed
C34_Witness ==
  /\ \E k \in 1..Len(scenes) :
       /\ scenes[k].status = "error"
       /\ scenes[k].everCompleted
       /\ scenes[k].imageUrl # 0
  /\ \E k \in 1..Len(scenes) :
       /\ scenes[k].status = "error"
       /\ ~scenes[k].everCompleted

\* ---- the assembly only inserts ----

\* what the splice puts into the working text for a scene
Inserted(id) == <<NL>> \o Token(id) \o <<NL>>

\* md with the inserted sequence of every placed scene from the k-th on
\* deleted
RECURSIVE DeleteInserted(_, _)
DeleteInserted(md, k) ==
  IF k > Len(Placed) THEN md
  ELSE LET at == IndexOf(md, Inserted(Placed[k].id), 0)
           rest == IF at = -1 THEN md
                   ELSE Slice(md, 0, at) \o SliceFrom(md, at + Len(Inserted(Placed[k].id)))
       IN DeleteInserted(rest, k + 1)

\* token length + 2, summed over the placed scenes from the k-th on
RECURSIVE InsertedLength(_)
InsertedLength(k) ==
  IF k > Len(Placed) THEN 0
  ELSE Len(Token(Placed[k].id)) + 2 + InsertedLength(k + 1)

\* C35: markdownWithImages with every inserted newline-token-newline sequence
\* deleted is fullText, and its length is the length of fullText plus the
\* token length + 2 of every placed scene.
C35_AssemblyOnlyInserts ==
  result.ready =>
    /\ DeleteInserted(Md, 1) = fullText
    /\ Len(Md) = Len(fullText) + InsertedLength(1)

\* an assembly that placed three scenes, one of them in the middle of a line
C35_Witness ==
  /\ result.ready
  /\ Len(Placed) = 3
  /\ \E k \in 1..Len(Placed) :
       /\ Placed[k].at > 0
       /\ Placed[k].at < Len(Placed[k].before)
       /\ Placed[k].before[Placed[k].at] # NL
       /\ Placed[k].before[Placed[k].at + 1] # NL

\* ---- termination of the per-scene generation call ----

\* the call under the assumption that the caller invokes it and the image
\* capability answers every submission
SpecGenFair == InitGen /\ [][NextGen]_vars /\ WF_vars(NextGen)

\* no call makes more than five submissions or nests more than three frames
BoundedSubmissions == Len(gSubmitted) <= 5 /\ Len(gStack) <= 3

\* the call has returned an image or thrown
CallReturned == gResult \notin {"idle", "running"} /\ gStack = <<>>

\* C36: whatever the image capability answers and whether the call starts as
\* a retry or not, a call makes a bounded number of submissions, its
\* self-invocations nest to a bounded depth, and it returns.
C36_GenerationTerminates == []BoundedSubmissions /\ <>CallReturned

\* a call that started with isRetry = false returned after five submissions
C36_Witness ==
  /\ CallReturned
  /\ ~gInput.isRetry
  /\ Len(gSubmitted) = 5

\* =====================================================================
\* One fresh batch run of the cooldown revision (src/unnamed/part_000
\* 130-222) from the editor, every awaited request and timer settling, the
\* image capability free to answer any request with a rate limit.
\* =====================================================================

CoolGenReturnUnlimited == CoolGenSettles(FALSE)

NextCoolRun ==
  \/ ClickStart /\ CtlFrame
  \/ EditText /\ CtlFrame
  \/ TypeKey /\ CtlFrame
  \/ handleSaveInitialKey /\ CtlFrame
  \/ CoolAnalyzeReturn /\ CoolFrame
  \/ CoolGenReturnUnlimited /\ CoolFrame
  \/ CooldownTick /\ CoolFrame

SpecCoolRun ==
  /\ InitCool
  /\ [][NextCoolRun]_vars
  /\ WF_vars(CoolAnalyzeReturn /\ CoolFrame)
  /\ WF_vars(CoolGenReturnUnlimited /\ CoolFrame)
  /\ WF_vars(CooldownTick /\ CoolFrame)

\* a run is counting down after a rate-limited request
InCooldown == \E n \in 1..Len(ops) : ops[n].pc = "cooldown"

\* the last answer a run got from the image capability was a rate limit
LastAnswerQuota == \E n \in 1..Len(ops) : ops[n].kind = "batch" /\ ops[n].outcome = "quota"

\* the rate limits stop: eventually no run counts down any more
QuotaStops == <>[](~InCooldown)

\* the rate limits never stop: from some request on every answer is one
QuotaNeverStops == <>[]LastAnswerQuota

NeverCompleteNorError == [](stage \notin {"complete", "error"})

\* C37 as stated: if the rate limits stop, a fresh run (stage analyzing)
\* reaches stage complete; if they never stop, stage is never complete and
\* never error.
C37_FreshRunCompletes ==
  /\ QuotaStops => ((stage = "analyzing") ~> (stage = "complete"))
  /\ QuotaNeverStops => NeverCompleteNorError

\* C37 amended: if the rate limits stop, a run whose analysis succeeded
\* (stage generating) reaches stage complete; if they never stop, stage is
\* never complete and never error.
C37_AnalysedRunCompletes ==
  /\ QuotaStops => ((stage = "generating") ~> (stage = "complete"))
  /\ QuotaNeverStops => NeverCompleteNorError

\* a run that was rate limited at least MaxQuotaFailures times has completed
C37_Witness ==
  /\ stage = "complete"
  /\ Len(ops) = 1
  /\ ops[1].quotas = MaxQuotaFailures

\* ---- the scene list at completion ----

\* C38: in the step in which a batch run ends its loop and sets stage to
\* complete, every scene of the published list is completed or in error.
C38_SettledAtComplete ==
  [][\A n \in 1..Len(ops') :
       LoopEnds(n) =>
         /\ stage' = "complete"
         /\ \A k \in 1..Len(scenes') : scenes'[k].status \in {"completed", "error"}]_vars

\* the controller when a first run has completed every scene and set stage
\* to complete (App.tsx 254-259); the log of invocations begins again here,
\* and the images of the first run are told apart from all later ones
FirstRunCompleted ==
  /\ stage = "complete"
  /\ totalScenes = NumScenes
  /\ completedScenes = NumScenes
  /\ scenes = [k \in 1..NumScenes |->
                 [NewScene(k) EXCEPT !.status = "completed", !.imageUrl = MaxOps + 1,
                                     !.everCompleted = TRUE]]
  /\ hasText = TRUE
  /\ currentApiKey = 1
  /\ newKeyInput = 0
  /\ showRateLimitModal = FALSE
  /\ showApiKeyModal = FALSE
  /\ retryStartIndex = 0
  /\ ops = IdleOps
  /\ reqLog = {}

InitAfterRun ==
  FirstRunCompleted /\ GenIdle /\ AsmIdle /\ CoolIdle /\ SanIdle /\ CmpIdle /\ AnaIdle /\ BndIdle

\* what the user and the pending continuations can do after the first run
SpecAfterRun == InitAfterRun /\ [][NextThree]_vars

\* ---- the index handed over by the resume action ----

\* handleResumeWithNewKey invokes startProcessing in this step
ResumeStarts == BatchStarts /\ ops'[Len(ops) + 1].viaResume

\* C39: whenever the resume action starts a batch run, the index it passes
\* is 0 (restart the analysis) or a position of the scene list,
\* 0 <= index < number of scenes; the marker -1 of a rate-limited
\* regenerate is never passed to startProcessing.
C39_ResumeIndexValid ==
  [][ResumeStarts =>
       /\ ops'[Len(ops) + 1].resume >= 0
       /\ ops'[Len(ops) + 1].resume = 0 \/ ops'[Len(ops) + 1].resume < Len(scenes)]_vars

\* ---- stage error ----

\* C40: stage error is absorbing.  Once stage is error, no action of the
\* user and no continuation of an awaited request changes stage again.
C40_ErrorAbsorbing == [][stage = "error" => stage' = "error"]_vars

====
